---- MODULE Spec2Model ----
(***************************************************************************)
(* Verification model of the subway-agent core: the station catalog        *)
(* (stations.py), the static timetable parser and its singleton            *)
(* (gtfs_static.py), the line-aware shortest path planner (routing.py),    *)
(* the real-time arrival client and its cache (mta_feed.py) and the        *)
(* local-vs-express and transfer-timing tools (tools.py).                  *)
(*                                                                         *)
(* The network is a window of the repository's tables: the first stations  *)
(* of lines 1, 2, 3, 7 and E of LINE_SEQUENCES and the catalog rows of     *)
(* those stations (line sets restricted to the five modelled lines), plus  *)
(* one catalog station that no line sequence mentions.                     *)
(***************************************************************************)
EXTENDS Integers, Sequences, FiniteSets, TLC

VARIABLES gtfs, adjacency, upstream, clock, cache, call, ret,
          bundle, singleton, parsers, pc

vars == <<gtfs, adjacency, upstream, clock, cache, call, ret,
          bundle, singleton, parsers, pc>>

\* the state of start-up and of the callers in flight; the queries that run
\* after start-up, one at a time, leave it alone
startup == <<bundle, singleton, parsers, pc>>

\* Optional values: None is the empty tuple, Some(x) a one-element tuple
None == <<>>

Some(x) == <<x>>

Val(opt) == opt[1]

(***************************************************************************)
(* Program constants                                                       *)
(***************************************************************************)
AVG_TIME_BETWEEN_STOPS == 2

TRANSFER_TIME == 5

TRANSFER_BUFFER_MIN == 1

CACHE_TTL == 30

(***************************************************************************)
(* Generic helpers                                                         *)
(***************************************************************************)
Range(s) == {s[i] : i \in 1..Len(s)}

RECURSIVE SumSeq(_)
SumSeq(s) == IF s = <<>> THEN 0 ELSE Head(s) + SumSeq(Tail(s))

RECURSIVE Flatten(_)
Flatten(ss) == IF ss = <<>> THEN <<>> ELSE Head(ss) \o Flatten(Tail(ss))

\* index of x in the sequence s (0 when absent)
IndexOf(s, x) == IF \E i \in 1..Len(s) : s[i] = x
                 THEN CHOOSE i \in 1..Len(s) : s[i] = x /\ \A j \in 1..(i-1) : s[j] # x
                 ELSE 0

Min2(a, b) == IF a <= b THEN a ELSE b

Max2(a, b) == IF a >= b THEN a ELSE b

(***************************************************************************)
(* stations.py: the catalog                                                *)
(***************************************************************************)
Station(id, lines, stop, lat) ==
    [id |-> id, lines |-> lines, gtfs_stop_id |-> stop, latitude |-> lat]

\* latitude is kept in units of 1e-4 degree; stop ids are character sequences
STATIONS_DATA ==
    << Station("south_ferry",  <<"1">>,           <<"1","4","2">>, 407019),
       Station("wall_st_23",   <<"2","3">>,       <<"1","3","7">>, 407069),
       Station("fulton",       <<"2","3">>,       <<"A","3","8">>, 407102),
       Station("park_place",   <<"2","3">>,       <<"1","3","1">>, 407131),
       Station("chambers_123", <<"1","2","3">>,   <<"1","3","0">>, 407150),
       Station("canal_123",    <<"1","2","3">>,   <<"1","2","6">>, 407227),
       Station("canal_ace",    <<"E">>,           <<"A","3","4">>, 407209),
       Station("spring_ce",    <<"E">>,           <<"A","3","3">>, 407263),
       Station("houston",      <<"1">>,           <<"1","2","4">>, 407287),
       Station("christopher",  <<"1">>,           <<"1","2","2">>, 407334),
       Station("14th_123",     <<"1","2","3">>,   <<"1","2","0">>, 407378),
       Station("34th_penn_123", <<"1","2","3">>,  <<"1","1","5">>, 407507),
       Station("42nd_times_sq", <<"1","2","3","7">>, <<"R","1","6">>, 407559),
       Station("grand_central", <<"7">>,          <<"6","3","1">>, 407527),
       Station("borough_hall", <<"2","3">>,       <<"2","3","5">>, 406940) >>

StationIds == {STATIONS_DATA[i].id : i \in 1..Len(STATIONS_DATA)}

STATIONS == [id \in StationIds |->
                STATIONS_DATA[CHOOSE i \in 1..Len(STATIONS_DATA) : STATIONS_DATA[i].id = id]]

(***************************************************************************)
(* routing.py: line sequences                                              *)
(***************************************************************************)
LineOrder == <<"1", "2", "3", "7", "E">>

Lines == Range(LineOrder)

LINE_SEQUENCES ==
    [line \in Lines |->
       CASE line = "1" -> <<"south_ferry", "wall_st_23", "fulton", "park_place", "chambers_123",
                            "canal_123", "houston", "christopher", "14th_123">>
         [] line = "2" -> <<"south_ferry", "wall_st_23", "fulton", "park_place", "chambers_123",
                            "14th_123", "34th_penn_123", "42nd_times_sq">>
         [] line = "3" -> <<"south_ferry", "wall_st_23", "fulton", "park_place", "chambers_123",
                            "14th_123", "34th_penn_123", "42nd_times_sq">>
         [] line = "7" -> <<"34th_penn_ace", "42nd_times_sq", "grand_central">>
         [] line = "E" -> <<"world_trade", "canal_ace", "spring_ce">>]

\* every station id the program can be handed: catalog ids and sequence ids
AllIds == StationIds \cup UNION {Range(LINE_SEQUENCES[l]) : l \in Lines}

\* Python's str ordering of the ids and of the line codes (heap tie-breaks)
IdOrder == <<"14th_123", "34th_penn_123", "34th_penn_ace", "42nd_times_sq", "borough_hall",
             "canal_123", "canal_ace", "chambers_123", "christopher", "fulton",
             "grand_central", "houston", "park_place", "south_ferry", "spring_ce",
             "wall_st_23", "world_trade">>

IdRank(id) == IndexOf(IdOrder, id)

LineRank(line) == IndexOf(LineOrder, line)

(***************************************************************************)
(* stations.py: station names, STATION_NAME_INDEX, STATION_ALIASES and     *)
(* find_station.  Strings that are searched or rewritten are sequences of  *)
(* one-character strings.                                                  *)
(***************************************************************************)
\* rows of STATIONS_DATA with their display names, in catalog order: the
\* stations below Houston St that share the names Wall St, Chambers St and
\* Canal St, and three with a name of their own
STATION_NAMES ==
    << [id |-> "south_ferry",
        id_chars |-> <<"s", "o", "u", "t", "h", "_", "f", "e", "r", "r", "y">>,
        name |-> <<"S", "o", "u", "t", "h", " ", "F", "e", "r", "r", "y">>],
       [id |-> "wall_st_23",
        id_chars |-> <<"w", "a", "l", "l", "_", "s", "t", "_", "2", "3">>,
        name |-> <<"W", "a", "l", "l", " ", "S", "t">>],
       [id |-> "wall_st_45",
        id_chars |-> <<"w", "a", "l", "l", "_", "s", "t", "_", "4", "5">>,
        name |-> <<"W", "a", "l", "l", " ", "S", "t">>],
       [id |-> "fulton",
        id_chars |-> <<"f", "u", "l", "t", "o", "n">>,
        name |-> <<"F", "u", "l", "t", "o", "n", " ", "S", "t">>],
       [id |-> "chambers_123",
        id_chars |-> <<"c", "h", "a", "m", "b", "e", "r", "s", "_", "1", "2", "3">>,
        name |-> <<"C", "h", "a", "m", "b", "e", "r", "s", " ", "S", "t">>],
       [id |-> "chambers_ac",
        id_chars |-> <<"c", "h", "a", "m", "b", "e", "r", "s", "_", "a", "c">>,
        name |-> <<"C", "h", "a", "m", "b", "e", "r", "s", " ", "S", "t">>],
       [id |-> "canal_123",
        id_chars |-> <<"c", "a", "n", "a", "l", "_", "1", "2", "3">>,
        name |-> <<"C", "a", "n", "a", "l", " ", "S", "t">>],
       [id |-> "canal_nqrw",
        id_chars |-> <<"c", "a", "n", "a", "l", "_", "n", "q", "r", "w">>,
        name |-> <<"C", "a", "n", "a", "l", " ", "S", "t">>],
       [id |-> "houston",
        id_chars |-> <<"h", "o", "u", "s", "t", "o", "n">>,
        name |-> <<"H", "o", "u", "s", "t", "o", "n", " ", "S", "t">>] >>

UpperLetters ==
    <<"A", "B", "C", "D", "E", "F", "G", "H", "I", "J", "K", "L", "M",
      "N", "O", "P", "Q", "R", "S", "T", "U", "V", "W", "X", "Y", "Z">>

LowerLetters ==
    <<"a", "b", "c", "d", "e", "f", "g", "h", "i", "j", "k", "l", "m",
      "n", "o", "p", "q", "r", "s", "t", "u", "v", "w", "x", "y", "z">>

\* str.lower()
lower(s) ==
    [k \in 1..Len(s) |->
        IF \E i \in 1..26 : UpperLetters[i] = s[k]
        THEN LowerLetters[CHOOSE i \in 1..26 : UpperLetters[i] = s[k]]
        ELSE s[k]]

RECURSIVE strip(_)
\* str.strip(): leading and trailing blanks removed
strip(s) ==
    IF s # <<>> /\ s[1] = " " THEN strip(Tail(s))
    ELSE IF s # <<>> /\ s[Len(s)] = " " THEN strip(SubSeq(s, 1, Len(s) - 1))
    ELSE s

\* Python's `a in b` on strings
IsSubstring(a, b) ==
    \E i \in 1..(Len(b) - Len(a) + 1) : SubSeq(b, i, i + Len(a) - 1) = a

RECURSIVE Remove(_, _)
\* s.replace(old, ""): every occurrence, scanning from the left
Remove(s, old) ==
    IF Len(s) < Len(old) THEN s
    ELSE IF SubSeq(s, 1, Len(old)) = old
         THEN Remove(SubSeq(s, Len(old) + 1, Len(s)), old)
         ELSE <<s[1]>> \o Remove(Tail(s), old)

\* the words of line 316
SimplifyWords ==
    << <<"s", "t">>, <<"a", "v">>, <<"a", "v", "e">>, <<"b", "l", "v", "d">>,
       <<"r", "d">>, <<"p", "k", "w", "y">> >>

\* line 317
Simplified(name_lower, word) ==
    Remove(Remove(name_lower, <<" ">> \o word), <<"-">> \o word)

\* the keys one station writes, in the order lines 314-319 write them
StationKeys(name_lower) ==
    <<name_lower>> \o
    SelectSeq([k \in 1..Len(SimplifyWords) |-> Simplified(name_lower, SimplifyWords[k])],
              LAMBDA simplified : simplified # name_lower)

\* every assignment STATION_NAME_INDEX[key] = station of lines 312-319, in order
IndexWrites ==
    Flatten([k \in 1..Len(STATION_NAMES) |->
                LET keys == StationKeys(lower(STATION_NAMES[k].name))
                IN [i \in 1..Len(keys) |-> [name |-> keys[i], id |-> STATION_NAMES[k].id]]])

\* the dict those assignments leave, as its items in iteration order: a key
\* stands where it was first written and holds the value written last
STATION_NAME_INDEX ==
    LET w == IndexWrites
        first == SelectSeq([i \in 1..Len(w) |-> i],
                           LAMBDA i : \A j \in 1..(i - 1) : w[j].name # w[i].name)
        Last(key) == CHOOSE i \in 1..Len(w) :
                        w[i].name = key /\ \A j \in (i + 1)..Len(w) : w[j].name # key
    IN [k \in 1..Len(first) |->
           [name |-> w[first[k]].name, id |-> w[Last(w[first[k]].name)].id]]

\* the aliases whose target is one of the stations above
STATION_ALIASES ==
    << [alias |-> <<"w", "t", "c">>,
        id |-> "fulton"],
       [alias |-> <<"c", "a", "n", "a", "l", " ", "s", "t", "r", "e", "e", "t">>,
        id |-> "canal_nqrw"],
       [alias |-> <<"c", "a", "n", "a", "l", " ", "s", "t">>,
        id |-> "canal_nqrw"],
       [alias |-> <<"f", "u", "l", "t", "o", "n", " ", "s", "t">>,
        id |-> "fulton"],
       [alias |-> <<"c", "h", "a", "m", "b", "e", "r", "s", " ", "s", "t">>,
        id |-> "chambers_123"] >>

\* line 408 without `name in query_lower`
PartialMatchesForward(query_lower) ==
    SelectSeq(STATION_NAME_INDEX, LAMBDA e : IsSubstring(query_lower, e.name))

\* the entries of the name index that `query_lower` matches in line 408
PartialMatches(query_lower) ==
    SelectSeq(STATION_NAME_INDEX,
              LAMBDA e : IsSubstring(query_lower, e.name) \/ IsSubstring(e.name, query_lower))

\* matches.sort(key=len)[0]: the first of the shortest names
ShortestFirst(matches) ==
    matches[CHOOSE i \in 1..Len(matches) :
               /\ \A j \in 1..Len(matches) : Len(matches[i].name) <= Len(matches[j].name)
               /\ \A j \in 1..(i - 1) : Len(matches[j].name) > Len(matches[i].name)]

\* lines 416-418: the first station whose id contains the query
IdMatches(query_lower) ==
    SelectSeq(STATION_NAMES, LAMBDA s : IsSubstring(query_lower, s.id_chars))

\* find_station: None, or Some(id of the Station returned)
find_station(query) ==
    LET query_lower == strip(lower(query))
        aliases == SelectSeq(STATION_ALIASES, LAMBDA a : a.alias = query_lower)
        exact   == SelectSeq(STATION_NAME_INDEX, LAMBDA e : e.name = query_lower)
        matches == PartialMatches(query_lower)
        by_id   == IdMatches(query_lower)
    IN IF aliases # <<>> THEN Some(aliases[1].id)
       ELSE IF exact # <<>> THEN Some(exact[1].id)
       ELSE IF matches # <<>> THEN Some(ShortestFirst(matches).id)
       ELSE IF by_id # <<>> THEN Some(by_id[1].id)
       ELSE None

(***************************************************************************)
(* gtfs_static.py: the travel-time table and its lookup                    *)
(***************************************************************************)
RECURSIVE RStripNS(_)
\* str.rstrip('NS'): drops every trailing N or S
RStripNS(stop) ==
    IF stop # <<>> /\ stop[Len(stop)] \in {"N", "S"}
    THEN RStripNS(SubSeq(stop, 1, Len(stop) - 1))
    ELSE stop

\* round(seconds / 60): Python rounds an exact half to the even neighbour
RoundMinutes(seconds) ==
    LET q == seconds \div 60
        r == seconds % 60
    IN IF r < 30 THEN q
       ELSE IF r > 30 THEN q + 1
       ELSE IF q % 2 = 0 THEN q ELSE q + 1

\* get_travel_time with a route_id: base ids first, then the ids as given
get_travel_time(table, from_stop_id, to_stop_id, route_id) ==
    LET from_base == RStripNS(from_stop_id)
        to_base   == RStripNS(to_stop_id)
        key1      == <<from_base, to_base, route_id>>
        key2      == <<from_stop_id, to_stop_id, route_id>>
    IN IF key1 \in DOMAIN table THEN Some(table[key1])
       ELSE IF key2 \in DOMAIN table THEN Some(table[key2])
       ELSE None

\* get_travel_time without a route_id (lines 291-301): the minimum over the
\* entries whose base ids, or whose ids as stored, match the query
get_travel_time_any_route(table, from_stop_id, to_stop_id) ==
    LET from_base == RStripNS(from_stop_id)
        to_base   == RStripNS(to_stop_id)
        hits == {k \in DOMAIN table :
                    \/ RStripNS(k[1]) = from_base /\ RStripNS(k[2]) = to_base
                    \/ k[1] = from_stop_id /\ k[2] = to_stop_id}
    IN IF hits = {} THEN None
       ELSE Some(CHOOSE s \in {table[k] : k \in hits} : \A k \in hits : s <= table[k])

\* get_travel_time(from, to, route_id=None): `if route_id` takes None and the
\* empty string alike, both written "" here
get_travel_time_optional(table, from_stop_id, to_stop_id, route_id) ==
    IF route_id # "" THEN get_travel_time(table, from_stop_id, to_stop_id, route_id)
    ELSE get_travel_time_any_route(table, from_stop_id, to_stop_id)

get_travel_time_minutes(table, from_stop_id, to_stop_id, route_id) ==
    LET seconds == get_travel_time(table, from_stop_id, to_stop_id, route_id)
    IN IF seconds = None THEN None ELSE Some(RoundMinutes(Val(seconds)))

StopOf(id) == STATIONS[id].gtfs_stop_id

\* a table entry keyed by the catalog stop ids of two stations
Entry(a, b, line, seconds) == <<StopOf(a), StopOf(b), line>> :> seconds

\* Table with one-minute hops on the local and a four-minute express hop
\* (South Ferry -> Chambers 8 min, Chambers -> 14th St 6 min on the 1 and
\* 4 min on the 2); its first hop takes the 120 s that are also the default
TableTimed ==
    Entry("south_ferry", "wall_st_23", "1", 120) @@
    Entry("chambers_123", "canal_123", "1", 60) @@
    Entry("canal_123", "houston", "1", 60) @@
    Entry("chambers_123", "14th_123", "2", 240)

\* Table with very short and half-minute hops, one direction only
TableShort ==
    Entry("south_ferry", "wall_st_23", "1", 20) @@
    Entry("wall_st_23", "south_ferry", "1", 29) @@
    Entry("wall_st_23", "fulton", "1", 90) @@
    Entry("fulton", "park_place", "1", 150) @@
    Entry("park_place", "chambers_123", "2", 100)

\* the parser singleton: absent, or a parsed travel-time table
GtfsChoices == {None, Some(TableTimed), Some(TableShort)}

(***************************************************************************)
(* gtfs_static.py: _time_to_seconds and _calculate_travel_times            *)
(***************************************************************************)
\* a time string is modelled by its ':'-separated parts; "HH:MM:SS" has
\* three, anything else (the empty string included) is invalid
time_to_seconds(time_str) ==
    IF Len(time_str) # 3 THEN None
    ELSE Some(time_str[1] * 3600 + time_str[2] * 60 + time_str[3])

\* a row of stop_times.txt
StopTime(trip_id, arrival_time, departure_time, stop_id, stop_sequence) ==
    [trip_id |-> trip_id, arrival_time |-> arrival_time,
     departure_time |-> departure_time, stop_id |-> stop_id,
     stop_sequence |-> stop_sequence]

\* the keys of trips_stops in insertion order: first appearance in the file
RECURSIVE TripOrder(_, _)
TripOrder(stop_times, seen) ==
    IF stop_times = <<>> THEN seen
    ELSE TripOrder(Tail(stop_times),
                   IF Head(stop_times).trip_id \in Range(seen) THEN seen
                   ELSE Append(seen, Head(stop_times).trip_id))

\* trips_stops[trip_id] before sorting
TripStops(stop_times, trip_id) ==
    SelectSeq(stop_times, LAMBDA st : st.trip_id = trip_id)

\* stable insertion behind every row whose stop_sequence is not larger
InsertBySequence(sorted, st) ==
    LET k == Cardinality({i \in 1..Len(sorted) :
                             sorted[i].stop_sequence <= st.stop_sequence})
    IN SubSeq(sorted, 1, k) \o <<st>> \o SubSeq(sorted, k + 1, Len(sorted))

RECURSIVE SortBySequence(_)
\* stops.sort(key=stop_sequence)
SortBySequence(stops) ==
    IF stops = <<>> THEN <<>>
    ELSE InsertBySequence(SortBySequence(SubSeq(stops, 1, Len(stops) - 1)),
                          stops[Len(stops)])

\* lines 236-250: the seconds one consecutive pair contributes, if any
PairSeconds(from_stop, to_stop) ==
    LET from_time == time_to_seconds(from_stop.departure_time)
        to_time   == time_to_seconds(to_stop.arrival_time)
    IN IF from_time = None \/ to_time = None THEN None
       ELSE LET rolled == IF Val(to_time) < Val(from_time)
                          THEN Val(to_time) + 24 * 3600 ELSE Val(to_time)
                travel_seconds == rolled - Val(from_time)
            IN IF travel_seconds < 0 \/ travel_seconds > 1800 THEN None
               ELSE Some(travel_seconds)

\* lines 255-258 keeping the larger value
StoreMaximum(table, key, travel_seconds) ==
    IF key \notin DOMAIN table THEN table @@ (key :> travel_seconds)
    ELSE [table EXCEPT ![key] = Max2(@, travel_seconds)]

\* lines 255-258
StoreMinimum(table, key, travel_seconds) ==
    IF key \notin DOMAIN table THEN table @@ (key :> travel_seconds)
    ELSE [table EXCEPT ![key] = Min2(@, travel_seconds)]

RECURSIVE AddTripTimes(_, _, _, _)
\* the loop of lines 232-258 over one trip, from pair i on
AddTripTimes(table, stops, route_id, i) ==
    IF i > Len(stops) - 1 THEN table
    ELSE LET s == PairSeconds(stops[i], stops[i + 1])
             key == <<stops[i].stop_id, stops[i + 1].stop_id, route_id>>
         IN AddTripTimes(IF s = None THEN table ELSE StoreMinimum(table, key, Val(s)),
                         stops, route_id, i + 1)

RECURSIVE TravelTimesLoop(_, _, _, _)
\* the loop of lines 224-258 over the trips in `order`
TravelTimesLoop(table, stop_times, trips, order) ==
    IF order = <<>> THEN table
    ELSE LET trip_id == Head(order)
             stops == SortBySequence(TripStops(stop_times, trip_id))
         IN TravelTimesLoop(
               IF trip_id \notin DOMAIN trips \/ trips[trip_id] = "" THEN table
               ELSE AddTripTimes(table, stops, trips[trip_id], 1),
               stop_times, trips, Tail(order))

\* _calculate_travel_times on an empty travel_times table
calculate_travel_times(stop_times, trips) ==
    TravelTimesLoop(<<>>, stop_times, trips, TripOrder(stop_times, <<>>))

(***************************************************************************)
(* routing.py: SubwayGraph._build_graph / _add_edge                        *)
(***************************************************************************)
\* weight of the edge appended by _add_edge(from_id, to_id, line)
EdgeTime(g, from_id, to_id, line) ==
    IF g # None /\ from_id \in StationIds /\ to_id \in StationIds
    THEN LET travel_minutes ==
                 get_travel_time_minutes(Val(g), StopOf(from_id), StopOf(to_id), line)
         IN IF travel_minutes # None THEN Val(travel_minutes) ELSE AVG_TIME_BETWEEN_STOPS
    ELSE AVG_TIME_BETWEEN_STOPS

\* _build_graph adding the forward edge only
AddEdgesOneWay(from_id, to_id, line) == << <<from_id, to_id, line>> >>

\* the two _add_edge calls made for position i of a line's sequence
AddEdges(from_id, to_id, line) ==
    << <<from_id, to_id, line>>, <<to_id, from_id, line>> >>

\* the _add_edge calls of one line, in call order
LineEdges(line) ==
    LET stations == LINE_SEQUENCES[line]
    IN Flatten([i \in 1..(Len(stations) - 1) |->
           IF stations[i] \notin StationIds \/ stations[i + 1] \notin StationIds
           THEN <<>>
           ELSE AddEdges(stations[i], stations[i + 1], line)])

\* every _add_edge call of _build_graph, in call order
AllEdges == Flatten([k \in 1..Len(LineOrder) |-> LineEdges(LineOrder[k])])

\* adjacency[station] = [(neighbor, line, time)] in insertion order
BuildGraph(g) ==
    LET keys == {e[1] : e \in Range(AllEdges)}
        Mine(s) == SelectSeq(AllEdges, LAMBDA e : e[1] = s)
    IN [s \in keys |->
          [k \in 1..Len(Mine(s)) |->
              <<Mine(s)[k][2], Mine(s)[k][3],
                EdgeTime(g, s, Mine(s)[k][2], Mine(s)[k][3])>>]]

(***************************************************************************)
(* routing.py: SubwayGraph.find_route (modified Dijkstra)                  *)
(***************************************************************************)
\* heap entries are (time, transfers, current, current_line, path)
HeapEntry(time, transfers, current, line, path) ==
    [time |-> time, transfers |-> transfers, current |-> current,
     line |-> line, path |-> path]

\* Python's ordering of (station_id, line) tuples
PairLess(a, b) ==
    \/ IdRank(a[1]) < IdRank(b[1])
    \/ a[1] = b[1] /\ LineRank(a[2]) < LineRank(b[2])

RECURSIVE PathLess(_, _)
\* Python's ordering of lists of (station_id, line) tuples
PathLess(p, q) ==
    IF p = <<>> THEN q # <<>>
    ELSE IF q = <<>> THEN FALSE
    ELSE \/ PairLess(Head(p), Head(q))
         \/ Head(p) = Head(q) /\ PathLess(Tail(p), Tail(q))

\* Python's ordering of the heap tuples
EntryLess(a, b) ==
    \/ a.time < b.time
    \/ /\ a.time = b.time
       /\ \/ a.transfers < b.transfers
          \/ /\ a.transfers = b.transfers
             /\ \/ PairLess(<<a.current, a.line>>, <<b.current, b.line>>)
                \/ /\ a.current = b.current
                   /\ a.line = b.line
                   /\ PathLess(a.path, b.path)

\* heappop on a heap kept with the comparison reversed
HeapPopLargest(pq) == CHOOSE e \in pq : \A f \in pq \ {e} : EntryLess(f, e)

\* heapq.heappop: the smallest entry of the queue
HeapPop(pq) == CHOOSE e \in pq : \A f \in pq \ {e} : EntryLess(e, f)

\* the entries pushed while expanding a popped entry (lines 322-335)
Relax(adj, e, visited) ==
    LET edges == IF e.current \in DOMAIN adj THEN adj[e.current] ELSE <<>>
    IN { HeapEntry(e.time + edges[k][3]
                      + (IF edges[k][2] # e.line THEN TRANSFER_TIME ELSE 0),
                   e.transfers + (IF edges[k][2] # e.line THEN 1 ELSE 0),
                   edges[k][1], edges[k][2],
                   Append(e.path, <<edges[k][1], edges[k][2]>>)) :
         k \in {j \in 1..Len(edges) : <<edges[j][1], edges[j][2]>> \notin visited} }

RECURSIVE SearchLoop(_, _, _, _)
\* the while loop of find_route; yields the popped destination entry or None
SearchLoop(adj, pq, visited, to_station_id) ==
    IF pq = {} THEN None
    ELSE LET e     == HeapPop(pq)
             rest  == pq \ {e}
             state == <<e.current, e.line>>
         IN IF e.current = to_station_id THEN Some(e)
            ELSE IF state \in visited
                 THEN SearchLoop(adj, rest, visited, to_station_id)
                 ELSE SearchLoop(adj, rest \cup Relax(adj, e, visited \cup {state}),
                                 visited \cup {state}, to_station_id)

\* the heap after seeding every line of the origin at cost 0 (lines 304-307)
SeedQueue(from_station_id) ==
    { HeapEntry(0, 0, from_station_id, line, << <<from_station_id, line>> >>) :
        line \in Range(STATIONS[from_station_id].lines) }

\* the destination entry popped by find_route, None when it returns None
\* before or without popping one
Search(adj, from_station_id, to_station_id) ==
    IF from_station_id \notin DOMAIN adj \/ to_station_id \notin DOMAIN adj THEN None
    ELSE IF from_station_id \notin StationIds THEN None
    ELSE SearchLoop(adj, SeedQueue(from_station_id), {}, to_station_id)

(***************************************************************************)
(* routing.py: SubwayGraph._build_route / _calculate_segment_time          *)
(***************************************************************************)
RouteSegment(line, stops, travel_time) ==
    [line |-> line, from_station |-> stops[1], to_station |-> stops[Len(stops)],
     stops |-> stops, travel_time_minutes |-> travel_time]

\* stations is the list of station ids of one segment
CalculateSegmentTime(g, stations, line) ==
    IF Len(stations) < 2 THEN 0
    ELSE IF g # None
    THEN LET hop(i) == get_travel_time(Val(g), StopOf(stations[i]),
                                       StopOf(stations[i + 1]), line)
             secs == [i \in 1..(Len(stations) - 1) |->
                         IF hop(i) # None THEN Val(hop(i))
                         ELSE AVG_TIME_BETWEEN_STOPS * 60]
         IN RoundMinutes(SumSeq(secs))
    ELSE (Len(stations) - 1) * AVG_TIME_BETWEEN_STOPS

\* station ids of path positions lo..hi-1, positions counted from 0 as in
\* the source
PathStations(path, lo, hi) == [j \in 1..(hi - lo) |-> path[lo + j][1]]

\* lines 353 and 367 without the test on the number of stations
WithSegmentOfAnyLength(g, segments, path, lo, hi, line) ==
    LET segment_stations == PathStations(path, lo, hi)
    IN Append(segments,
              RouteSegment(line, segment_stations,
                           CalculateSegmentTime(g, segment_stations, line)))

\* segments extended by the segment lo..hi-1 unless it has a single station
WithSegment(g, segments, path, lo, hi, line) ==
    LET segment_stations == PathStations(path, lo, hi)
    IN IF Len(segment_stations) > 1
       THEN Append(segments,
                   RouteSegment(line, segment_stations,
                                CalculateSegmentTime(g, segment_stations, line)))
       ELSE segments

RECURSIVE BuildSegments(_, _, _, _, _, _)
\* the for loop of _build_route from position i on, then the final segment
BuildSegments(g, path, i, segments, current_line, segment_start) ==
    IF i >= Len(path)
    THEN WithSegment(g, segments, path, segment_start, Len(path), current_line)
    ELSE LET line == path[i + 1][2]
         IN IF line # current_line
            THEN BuildSegments(g, path, i + 1,
                               WithSegment(g, segments, path, segment_start, i,
                                           current_line),
                               line, i - 1)
            ELSE BuildSegments(g, path, i + 1, segments, current_line, segment_start)

SegmentTimes(segments) == [k \in 1..Len(segments) |-> segments[k].travel_time_minutes]

\* total_time and transfer_count as lines 378-380 compute them
RouteTotal(segments) ==
    SumSeq(SegmentTimes(segments)) + (Len(segments) - 1) * TRANSFER_TIME

RouteTransfers(segments) == Len(segments) - 1

BuildRoute(g, path) ==
    LET segments == BuildSegments(g, path, 1, <<>>, path[1][2], 0)
    IN [segments |-> segments,
        total_time_minutes |-> RouteTotal(segments),
        transfer_count |-> RouteTransfers(segments)]

\* SubwayGraph.find_route: None or Some(Route)
GraphFindRoute(adj, g, from_station_id, to_station_id) ==
    LET found == Search(adj, from_station_id, to_station_id)
    IN IF found = None THEN None ELSE Some(BuildRoute(g, Val(found).path))

\* find_route letting a name that was not found default to the other one
find_route_fallback(adj, g, from_station, to_station) ==
    IF from_station = None /\ to_station = None THEN None
    ELSE GraphFindRoute(adj, g,
                        Val(IF from_station = None THEN to_station ELSE from_station).id,
                        Val(IF to_station = None THEN from_station ELSE to_station).id)

\* find_route(from_name, to_name) after the two find_station calls, whose
\* results are from_station and to_station (None when a name is not found)
find_route(adj, g, from_station, to_station) ==
    IF from_station = None THEN None
    ELSE IF to_station = None THEN None
    ELSE GraphFindRoute(adj, g, Val(from_station).id, Val(to_station).id)

(***************************************************************************)
(* routing.py: SubwayGraph.get_travel_time_on_line (BFS on one line)       *)
(***************************************************************************)
RECURSIVE ScanEdges(_, _, _, _, _, _, _)
\* the for loop over the edges of `current`, from edge k on
ScanEdges(edges, k, total_time, q, seen, to_station_id, line) ==
    IF k > Len(edges) THEN [found |-> None, q |-> q, seen |-> seen]
    ELSE LET neighbor == edges[k][1]
             edge_line == edges[k][2]
             edge_time == edges[k][3]
         IN IF edge_line # line
            THEN ScanEdges(edges, k + 1, total_time, q, seen, to_station_id, line)
            ELSE IF neighbor = to_station_id
            THEN [found |-> Some(total_time + edge_time), q |-> q, seen |-> seen]
            ELSE IF neighbor \notin seen
            THEN ScanEdges(edges, k + 1, total_time,
                           Append(q, <<neighbor, total_time + edge_time>>),
                           seen \cup {neighbor}, to_station_id, line)
            ELSE ScanEdges(edges, k + 1, total_time, q, seen, to_station_id, line)

RECURSIVE BfsLoop(_, _, _, _, _)
BfsLoop(adj, q, seen, to_station_id, line) ==
    IF q = <<>> THEN None
    ELSE LET current == Head(q)[1]
             edges   == IF current \in DOMAIN adj THEN adj[current] ELSE <<>>
             r       == ScanEdges(edges, 1, Head(q)[2], Tail(q), seen,
                                  to_station_id, line)
         IN IF r.found # None THEN r.found
            ELSE BfsLoop(adj, r.q, r.seen, to_station_id, line)

\* the time of the cheapest route on any lines, transfers included, in place
\* of the search of lines 432-446
get_travel_time_any_line(adj, from_station_id, to_station_id, line) ==
    IF from_station_id = to_station_id THEN Some(0)
    ELSE LET found == Search(adj, from_station_id, to_station_id)
         IN IF found = None THEN None ELSE Some(Val(found).time)

get_travel_time_on_line(adj, from_station_id, to_station_id, line) ==
    IF from_station_id = to_station_id THEN Some(0)
    ELSE IF from_station_id \notin DOMAIN adj \/ to_station_id \notin DOMAIN adj THEN None
    ELSE BfsLoop(adj, << <<from_station_id, 0>> >>, {from_station_id},
                 to_station_id, line)

(***************************************************************************)
(* config.py / mta_feed.py: the real-time feed client                      *)
(***************************************************************************)
UrlNumbered == "nyct/gtfs"

UrlAce == "nyct/gtfs-ace"

Urls == {UrlNumbered, UrlAce}

\* LINE_TO_FEED restricted to the modelled lines; no key of MTA_FEEDS holds
\* the character "7", so the 7 has no feed
LINE_TO_FEED ==
    [line \in Lines \ {"7"} |-> IF line \in {"1", "2", "3"} THEN UrlNumbered ELSE UrlAce]

\* str.upper() on the line codes a caller may pass
Upper(line) == IF line = "e" THEN "E" ELSE line

\* int(x / 60): Python's int() truncates toward zero
TruncMinutes(seconds) ==
    IF seconds >= 0 THEN seconds \div 60 ELSE -((-seconds) \div 60)

\* MTAFeedParser._parse_stop_id
ParseStopId(stop_id) ==
    IF stop_id # <<>> /\ stop_id[Len(stop_id)] \in {"N", "S"}
    THEN <<SubSeq(stop_id, 1, Len(stop_id) - 1), stop_id[Len(stop_id)]>>
    ELSE <<stop_id, "">>

\* _fetch_feed with a cache that holds one payload for all endpoints
FetchFeedSharedEntry(c, feed_url, time, outcome) ==
    IF c[feed_url] # None /\ time - Val(c[feed_url]).time < CACHE_TTL
    THEN [feed |-> Some(Val(c[feed_url]).data), cache |-> c, requested |-> FALSE]
    ELSE IF outcome # None
    THEN [feed |-> outcome,
          cache |-> [u \in DOMAIN c |->
                        IF u = feed_url THEN Some([time |-> time, data |-> Val(outcome)])
                        ELSE None],
          requested |-> TRUE]
    ELSE [feed |-> None, cache |-> c, requested |-> TRUE]

\* MTAFeedParser._fetch_feed at time `time`; `outcome` is what the network
\* request does if one is issued: Some(payload) or None for any exception.
\* `requested` tells whether requests.get was called.
FetchFeed(c, feed_url, time, outcome) ==
    IF c[feed_url] # None /\ time - Val(c[feed_url]).time < CACHE_TTL
    THEN [feed |-> Some(Val(c[feed_url]).data), cache |-> c, requested |-> FALSE]
    ELSE IF outcome # None
    THEN [feed |-> outcome,
          cache |-> [c EXCEPT ![feed_url] = Some([time |-> time, data |-> Val(outcome)])],
          requested |-> TRUE]
    ELSE [feed |-> None, cache |-> c, requested |-> TRUE]

\* the feeds get_arrivals_for_station queries (lines 100-103)
FeedUrls(station, lines) ==
    IF lines # <<>>
    THEN {LINE_TO_FEED[Upper(l)] : l \in {x \in Range(lines) : Upper(x) \in DOMAIN LINE_TO_FEED}}
    ELSE {LINE_TO_FEED[l] : l \in {x \in Range(station.lines) : x \in DOMAIN LINE_TO_FEED}}

\* the arrivals appended for one stop_time_update (lines 124-154), as a list
\* of zero or one TrainArrival
UpdateArrivals(entity, stu, station, now) ==
    LET parsed == ParseStopId(stu.stop_id)
        stamp  == IF stu.arrival # None THEN stu.arrival
                  ELSE IF stu.departure # None THEN stu.departure
                  ELSE None
    IN IF parsed[1] # station.gtfs_stop_id THEN <<>>
       ELSE IF stamp = None THEN <<>>
       ELSE IF TruncMinutes(Val(stamp) - now) < 0 THEN <<>>
       ELSE << [line |-> entity.route_id,
                station_id |-> station.id,
                direction |-> parsed[2],
                arrival_time |-> Val(stamp),
                minutes_until |-> TruncMinutes(Val(stamp) - now),
                trip_id |-> entity.trip_id] >>

\* line 139: datetime.fromtimestamp raises ValueError for a timestamp beyond
\* year 9999 (a feed stamped in milliseconds); the model's integers hold the
\* timestamps it accepts, and a stop_time_update marks one it does not
UpdateRaises(stu, station) ==
    /\ ParseStopId(stu.stop_id)[1] = station.gtfs_stop_id
    /\ stu.arrival # None \/ stu.departure # None
    /\ ~stu.in_range

\* some stop_time_update the loop of lines 113-154 reaches raises
FeedRaises(feed, station, lines) ==
    \E k \in 1..Len(feed) :
       /\ feed[k].has_trip_update
       /\ lines = <<>> \/ feed[k].route_id \in {Upper(l) : l \in Range(lines)}
       /\ \E i \in 1..Len(feed[k].stop_time_update) :
             UpdateRaises(feed[k].stop_time_update[i], station)

\* the arrivals appended for one feed entity (lines 113-154)
EntityArrivals(entity, station, lines, now) ==
    IF ~entity.has_trip_update THEN <<>>
    ELSE IF lines # <<>> /\ entity.route_id \notin {Upper(l) : l \in Range(lines)} THEN <<>>
    ELSE Flatten([k \in 1..Len(entity.stop_time_update) |->
                     UpdateArrivals(entity, entity.stop_time_update[k], station, now)])

FeedArrivals(feed, station, lines, now) ==
    Flatten([k \in 1..Len(feed) |-> EntityArrivals(feed[k], station, lines, now)])

\* list.sort(key=arrival_time) is stable: a goes after every element whose
\* key is not larger
InsertByTime(sorted, a) ==
    LET n == Cardinality({i \in 1..Len(sorted) : sorted[i].arrival_time <= a.arrival_time})
    IN SubSeq(sorted, 1, n) \o <<a>> \o SubSeq(sorted, n + 1, Len(sorted))

\* get_arrivals returning the arrivals in feed order
SortByTimeSkipped(arrivals) == arrivals

RECURSIVE SortByTime(_)
SortByTime(arrivals) ==
    IF arrivals = <<>> THEN <<>>
    ELSE InsertByTime(SortByTime(SubSeq(arrivals, 1, Len(arrivals) - 1)),
                      arrivals[Len(arrivals)])

RECURSIVE CollectArrivals(_, _, _, _, _, _, _)
\* the loop over feed_urls (lines 105-154): `order` is the iteration order of
\* the url set, `net` the outcome of a network request per url
CollectArrivals(order, c, arrivals, station, lines, now, net) ==
    IF order = <<>> THEN [arrivals |-> arrivals, cache |-> c, raised |-> FALSE]
    ELSE LET f == FetchFeed(c, Head(order), now, net[Head(order)])
         IN IF f.feed = None
            THEN CollectArrivals(Tail(order), f.cache, arrivals, station, lines, now, net)
            ELSE IF FeedRaises(Val(f.feed), station, lines)
            THEN [arrivals |-> <<>>, cache |-> f.cache, raised |-> TRUE]
            ELSE CollectArrivals(Tail(order), f.cache,
                                 arrivals \o FeedArrivals(Val(f.feed), station, lines, now),
                                 station, lines, now, net)

\* the orders in which a set of urls can be iterated
Orders(urls) ==
    {o \in UNION {[1..n -> urls] : n \in {Cardinality(urls)}} :
        \A i, j \in 1..Len(o) : i # j => o[i] # o[j]}

\* get_arrivals(station_id, lines): the returned list (or `raised` when an
\* exception leaves the call) and the cache after it; an empty `lines` is
\* the absent filter
get_arrivals(c, station_id, lines, now, order, net) ==
    IF station_id \notin StationIds
    THEN [arrivals |-> <<>>, cache |-> c, raised |-> FALSE]
    ELSE LET r == CollectArrivals(order, c, <<>>, STATIONS[station_id], lines, now, net)
         IN [arrivals |-> SortByTime(r.arrivals), cache |-> r.cache, raised |-> r.raised]

\* the url iteration orders get_arrivals can take for a call
ArrivalOrders(station_id, lines) ==
    IF station_id \notin StationIds THEN {<<>>}
    ELSE Orders(FeedUrls(STATIONS[station_id], lines))

(***************************************************************************)
(* tools.py: compare_local_vs_express                                      *)
(***************************************************************************)
Minutes(arrivals) == [k \in 1..Len(arrivals) |-> arrivals[k].minutes_until]

SameDirection(arrivals, want_direction) ==
    SelectSeq(arrivals, LAMBDA a : a.direction = want_direction)

\* the first express line with a path from the transfer to the destination
\* (lines 296-301): None or Some(minutes)
RECURSIVE FirstExpressTime(_, _, _, _)
FirstExpressTime(adj, express_list, xfer_id, to_id) ==
    IF express_list = <<>> THEN None
    ELSE LET t == get_travel_time_on_line(adj, xfer_id, to_id, Head(express_list))
         IN IF t # None THEN t
            ELSE FirstExpressTime(adj, Tail(express_list), xfer_id, to_id)

\* the same-platform shortcut taken for every transfer station
CatchableArrivalsUnfiltered(same_station, xfer_same_dir, min_connection) ==
    SubSeq(xfer_same_dir, 1, Min2(1, Len(xfer_same_dir)))

\* the `catchable` list of lines 314-326
CatchableArrivals(same_station, xfer_same_dir, min_connection) ==
    IF same_station
    THEN SubSeq(xfer_same_dir, 1, Min2(1, Len(xfer_same_dir)))
    ELSE SelectSeq(xfer_same_dir, LAMBDA a : a.minutes_until >= min_connection)

\* both branches reporting transfer_total - direct_total
RecommendationSameSaving(direct_total, transfer_total) ==
    IF direct_total <= transfer_total
    THEN [recommendation |-> "local", saves |-> transfer_total - direct_total]
    ELSE [recommendation |-> "transfer", saves |-> transfer_total - direct_total]

\* the recommendation line of lines 352-355
Recommendation(direct_total, transfer_total) ==
    IF direct_total <= transfer_total
    THEN [recommendation |-> "local", saves |-> transfer_total - direct_total]
    ELSE [recommendation |-> "transfer", saves |-> direct_total - transfer_total]

\* lines 309-356: the outcome once both arrival lists are known
Recommend(local, o2d, o2x, x2d, same_station, xfer_same_dir) ==
    LET depart_wait    == local[1].minutes_until
        direct_total   == depart_wait + Val(o2d)
        arrive_at_xfer == IF same_station THEN depart_wait
                          ELSE depart_wait + (IF o2x # None THEN Val(o2x) ELSE 0)
        min_connection == arrive_at_xfer + TRANSFER_BUFFER_MIN
        catchable      == CatchableArrivals(same_station, xfer_same_dir, min_connection)
        base == [depart_wait |-> depart_wait, direct_total |-> direct_total,
                 arrive_at_xfer |-> arrive_at_xfer, same_station |-> same_station,
                 local_minutes |-> Minutes(local),
                 xfer_minutes |-> Minutes(xfer_same_dir)]
    IN IF catchable = <<>>
       THEN base @@ [kind |-> "no_catch", recommendation |-> "local"]
       ELSE LET express_depart_min == catchable[1].minutes_until
                transfer_total     == express_depart_min + Val(x2d)
                wait_at_xfer ==
                    Max2(0, express_depart_min - arrive_at_xfer
                              - (IF same_station THEN 0 ELSE TRANSFER_BUFFER_MIN))
            IN base @@
               [kind |-> "compared",
                express_line |-> catchable[1].line,
                express_depart_min |-> express_depart_min,
                transfer_total |-> transfer_total,
                wait_at_xfer |-> wait_at_xfer]
               @@ Recommendation(direct_total, transfer_total)

\* compare_local_vs_express after the three find_station calls (None for a
\* name that was not found).  now1/now2 are the clock at the two get_arrivals
\* calls, o1/o2 their url orders and net1/net2 the network outcomes.
compare_local_vs_express(adj, c, from_st, to_st, xfer_st, local_line, express_lines, now1, o1, net1, now2, o2, net2) ==
    IF from_st = None \/ to_st = None \/ xfer_st = None
    THEN [result |-> [kind |-> "not_found"], cache |-> c]
    ELSE
    LET from_id == Val(from_st).id
        to_id   == Val(to_st).id
        xfer_id == Val(xfer_st).id
        express_list == [k \in 1..Len(express_lines) |-> Upper(express_lines[k])]
        want_direction == IF Val(to_st).latitude > Val(from_st).latitude THEN "N" ELSE "S"
        o2x == get_travel_time_on_line(adj, from_id, xfer_id, local_line)
        o2d == get_travel_time_on_line(adj, from_id, to_id, local_line)
        x2d == FirstExpressTime(adj, express_list, xfer_id, to_id)
    IN IF o2d = None
       THEN [result |-> [kind |-> "no_local_path"], cache |-> c]
       ELSE IF from_id # xfer_id /\ (o2x = None \/ Val(o2x) <= 0)
       THEN [result |-> [kind |-> "no_xfer_path"], cache |-> c]
       ELSE IF x2d = None
       THEN [result |-> [kind |-> "no_express_path"], cache |-> c]
       ELSE
       LET first == get_arrivals(c, from_id, <<local_line>>, now1, o1, net1)
           local_same_dir == SameDirection(first.arrivals, want_direction)
       IN IF first.raised
          THEN [result |-> [kind |-> "raised"], cache |-> first.cache]
          ELSE IF local_same_dir = <<>>
          THEN [result |-> [kind |-> "no_local_train"], cache |-> first.cache]
          ELSE
          LET second == get_arrivals(first.cache, xfer_id, express_list, now2, o2, net2)
              xfer_same_dir == SameDirection(second.arrivals, want_direction)
          IN IF second.raised
             THEN [result |-> [kind |-> "raised"], cache |-> second.cache]
             ELSE
             [result |-> Recommend(local_same_dir, o2d, o2x, x2d,
                                   from_id = xfer_id, xfer_same_dir)
                           @@ [o2x |-> o2x, o2d |-> o2d, x2d |-> x2d],
              cache |-> second.cache]

(***************************************************************************)
(* tools.py: get_transfer_timing                                           *)
(***************************************************************************)
\* the url order of a get_arrivals call filtered to one line: its feed, or
\* nothing when the line has none
LineOrderOf(line) ==
    IF Upper(line) \in DOMAIN LINE_TO_FEED THEN <<LINE_TO_FEED[Upper(line)]>> ELSE <<>>

\* `x or 0` on an Optional[int]
OrZero(opt) == IF opt = None THEN 0 ELSE Val(opt)

\* lines 400-409: a route with transfer_count = 0
DirectTiming(adj, c, route, from_st, to_st, want_direction, now, net) ==
    LET line     == route.segments[1].line
        travel   == get_travel_time_on_line(adj, from_st.id, to_st.id, line)
        first    == get_arrivals(c, from_st.id, <<line>>, now, LineOrderOf(line), net)
        relevant == SameDirection(first.arrivals, want_direction)
    IN IF first.raised
       THEN [result |-> [kind |-> "raised"], cache |-> first.cache]
       ELSE IF relevant = <<>>
       THEN [result |-> [kind |-> "direct_no_train", route |-> route, travel |-> travel],
             cache |-> first.cache]
       ELSE [result |-> [kind |-> "direct", route |-> route, travel |-> travel,
                         next_min |-> relevant[1].minutes_until,
                         total |-> relevant[1].minutes_until + OrZero(travel)],
             cache |-> first.cache]

\* lines 411-451: the first two segments of a route with transfers
TransferTiming(adj, c, route, from_st, to_st, want_direction, now, net) ==
    LET seg1        == route.segments[1]
        seg2        == route.segments[2]
        xfer_id     == seg1.to_station
        first_line  == seg1.line
        second_line == seg2.line
        first       == get_arrivals(c, from_st.id, <<first_line>>, now,
                                    LineOrderOf(first_line), net)
        relevant1   == SameDirection(first.arrivals, want_direction)
    IN IF first.raised
       THEN [result |-> [kind |-> "raised"], cache |-> first.cache]
       ELSE IF relevant1 = <<>>
       THEN [result |-> [kind |-> "no_first_train", route |-> route], cache |-> first.cache]
       ELSE
       LET next_depart_min    == relevant1[1].minutes_until
           travel_to_xfer     == OrZero(get_travel_time_on_line(adj, from_st.id, xfer_id,
                                                                first_line))
           arrive_at_xfer_min == next_depart_min + travel_to_xfer
           min_connection     == arrive_at_xfer_min + TRANSFER_BUFFER_MIN
           second    == get_arrivals(first.cache, xfer_id, <<second_line>>, now,
                                     LineOrderOf(second_line), net)
           relevant2 == SameDirection(second.arrivals, want_direction)
           catchable == SelectSeq(relevant2, LAMBDA a : a.minutes_until >= min_connection)
           base == [route |-> route, next_depart_min |-> next_depart_min,
                    travel_to_xfer |-> travel_to_xfer,
                    arrive_at_xfer_min |-> arrive_at_xfer_min,
                    relevant2 |-> Minutes(relevant2)]
       IN IF second.raised
          THEN [result |-> [kind |-> "raised"], cache |-> second.cache]
          ELSE IF catchable = <<>>
          THEN [result |-> base @@ [kind |-> "no_catch"], cache |-> second.cache]
          ELSE
          LET next_second == catchable[1].minutes_until
              travel_leg2 == OrZero(get_travel_time_on_line(adj, xfer_id, to_st.id,
                                                            second_line))
          IN [result |-> base @@
                 [kind |-> "timed",
                  next_second |-> next_second,
                  wait_at_xfer |-> Max2(0, next_second - arrive_at_xfer_min),
                  travel_leg2 |-> travel_leg2,
                  total |-> next_second + travel_leg2],
              cache |-> second.cache]

\* get_transfer_timing after the two find_station calls.  Both get_arrivals
\* calls read the clock as `now` and meet the network outcome `net`.
get_transfer_timing(adj, g, c, from_st, to_st, now, net) ==
    IF from_st = None \/ to_st = None
    THEN [result |-> [kind |-> "not_found"], cache |-> c]
    ELSE
    LET route == GraphFindRoute(adj, g, Val(from_st).id, Val(to_st).id)
        want_direction == IF Val(to_st).latitude > Val(from_st).latitude THEN "N" ELSE "S"
    IN IF route = None
       THEN [result |-> [kind |-> "no_route"], cache |-> c]
       ELSE IF Val(route).transfer_count = 0
       THEN DirectTiming(adj, c, Val(route), Val(from_st), Val(to_st), want_direction,
                         now, net)
       \* line 411: segments[0] / segments[1] of a shorter list raise IndexError
       ELSE IF Len(Val(route).segments) < 2
       THEN [result |-> [kind |-> "raised", route |-> Val(route)], cache |-> c]
       ELSE TransferTiming(adj, c, Val(route), Val(from_st), Val(to_st), want_direction,
                           now, net)

(***************************************************************************)
(* Feed contents the model publishes                                       *)
(***************************************************************************)
Stu(stop_id, arrival, departure) ==
    [stop_id |-> stop_id, arrival |-> arrival, departure |-> departure,
     in_range |-> TRUE]

\* an update whose arrival time is beyond what datetime can represent
StuFar(stop_id) ==
    [stop_id |-> stop_id, arrival |-> Some(0), departure |-> None, in_range |-> FALSE]

Trip(route_id, trip_id, updates) ==
    [has_trip_update |-> TRUE, route_id |-> route_id, trip_id |-> trip_id,
     stop_time_update |-> updates]

\* an entity that carries no trip_update (an alert)
Alert == [has_trip_update |-> FALSE, route_id |-> "", trip_id |-> "",
          stop_time_update |-> <<>>]

\* the feed's stop id of a station's platform in one direction
Platform(id, direction) == Append(StopOf(id), direction)

\* a timestamp that is m whole minutes ahead while the clock is below 45 s
At(m) == 60 * m + 45

\* line 1 trains: one leaving South Ferry uptown in 3 min and reaching
\* Chambers St at 11, a later one listed first, a downtown one, an update
\* with no time and a departure-only update
LocalTrips ==
    << Alert,
       Trip("1", "L9", << Stu(Platform("south_ferry", "N"), None, Some(At(9))) >>),
       Trip("1", "L3", << Stu(Platform("south_ferry", "N"), Some(At(3)), None),
                          Stu(Platform("chambers_123", "N"), Some(At(11)), None) >>),
       Trip("1", "D1", << Stu(Platform("south_ferry", "S"), Some(At(1)), None),
                          Stu(Platform("south_ferry", "N"), None, None) >>) >>

\* a line 1 train whose South Ferry updates are 100 s before and 10 s after
\* the first clock value
StaleTrips ==
    << Trip("1", "P0", << Stu(Platform("south_ferry", "N"), Some(-100), None),
                          Stu(Platform("south_ferry", "N"), Some(10), None) >>) >>

\* line 1 trains running downtown only
DowntownOnly ==
    << Trip("1", "D1", << Stu(Platform("south_ferry", "S"), Some(At(1)), None),
                          Stu(Platform("chambers_123", "S"), Some(At(2)), None) >>) >>

\* a line 1 train with an unrepresentable arrival time at Chambers St
FarTrips ==
    << Trip("1", "F1", << StuFar(Platform("chambers_123", "N")) >>) >>

\* uptown express trains at Chambers St, one per listed (line, minute)
ExpressTrips(trains) ==
    [k \in 1..Len(trains) |->
        Trip(trains[k][1], "X", << Stu(Platform("chambers_123", "N"),
                                       Some(At(trains[k][2])), None) >>)]

NumberedPayloads ==
    { LocalTrips \o ExpressTrips(<< <<"2", 10>>, <<"3", 15>>, <<"2", 20>> >>),
      LocalTrips \o ExpressTrips(<< <<"3", 12>> >>),
      LocalTrips \o ExpressTrips(<< <<"2", 5>>, <<"3", 10>> >>),
      LocalTrips \o ExpressTrips(<< <<"2", 17>> >>),
      LocalTrips \o ExpressTrips(<< <<"3", 20>>, <<"2", 13>> >>),
      LocalTrips,
      LocalTrips \o StaleTrips \o ExpressTrips(<< <<"2", 10>> >>),
      LocalTrips \o FarTrips \o ExpressTrips(<< <<"2", 15>> >>),
      DowntownOnly \o ExpressTrips(<< <<"2", 15>> >>) }

AcePayload ==
    << Trip("E", "E4", << Stu(Platform("canal_ace", "N"), Some(At(4)), None) >>),
       Trip("E", "E5", << Stu(Platform("south_ferry", "N"), Some(At(5)), None) >>) >>

(***************************************************************************)
(* Bounds                                                                  *)
(***************************************************************************)
\* seconds that pass in one Tick, and the number of Ticks in a behaviour
TickSeconds == 20

MaxTicks == 2

(***************************************************************************)
(* State machine                                                           *)
(*   gtfs       the parser singleton: None or Some(travel-time table)      *)
(*   adjacency  SubwayGraph.adjacency                                      *)
(*   upstream   what each feed endpoint currently serves                   *)
(*   clock      time.time() / datetime.now(), in seconds                   *)
(*   cache      MTAFeedParser._cache                                       *)
(*   call, ret  the query being answered and its result (None when idle)   *)
(*   bundle     the file at GTFSStaticParser.gtfs_path                     *)
(*   singleton  the module global _gtfs_parser                             *)
(*   parsers    the GTFSStaticParser instances created so far              *)
(*   pc         position and locals of each caller that is in flight       *)
(***************************************************************************)
EmptyCache == [u \in Urls |-> None]

InitWith(tables, payloads) ==
    /\ gtfs \in tables
    /\ adjacency = BuildGraph(gtfs)
    /\ upstream \in {[u \in Urls |-> IF u = UrlNumbered THEN p ELSE AcePayload] :
                         p \in payloads}
    /\ clock = 0
    /\ cache = EmptyCache
    /\ call = None
    /\ ret = None
    /\ bundle = "valid"
    /\ singleton = None
    /\ parsers = <<>>
    /\ pc = <<>>

\* time passes between two queries; the previous result has been consumed
Tick ==
    /\ clock + TickSeconds <= MaxTicks * TickSeconds
    /\ clock' = clock + TickSeconds
    /\ call' = None
    /\ ret' = None
    /\ UNCHANGED <<gtfs, adjacency, upstream, cache, startup>>

\* what one network request to each url can do: deliver the published
\* payload, or fail (timeout, connection error, HTTP error, bad payload)
NetOutcomes == [Urls -> {"ok", "fail"}]

Net(outcome) == [u \in Urls |-> IF outcome[u] = "ok" THEN Some(upstream[u]) ELSE None]

\* ---- routing queries ----
RouteIds == AllIds

FindRoute(from_id, to_id) ==
    /\ call = None
    /\ call' = Some([op |-> "find_route", from |-> from_id, to |-> to_id])
    /\ ret' = Some([route  |-> GraphFindRoute(adjacency, gtfs, from_id, to_id),
                    popped |-> Search(adjacency, from_id, to_id)])
    /\ UNCHANGED <<gtfs, adjacency, upstream, clock, cache, startup>>

\* a find_station result: None or Some(Station)
Resolved == {None} \cup {Some(STATIONS[id]) : id \in StationIds}

FindRouteByName(from_st, to_st) ==
    /\ call = None
    /\ call' = Some([op |-> "find_route_by_name", from |-> from_st, to |-> to_st])
    /\ ret' = Some([route |-> find_route(adjacency, gtfs, from_st, to_st)])
    /\ UNCHANGED <<gtfs, adjacency, upstream, clock, cache, startup>>

TravelTimeOnLine(from_id, to_id, line) ==
    /\ call = None
    /\ call' = Some([op |-> "get_travel_time_on_line", from |-> from_id, to |-> to_id,
                     line |-> line])
    /\ ret' = Some([minutes |-> get_travel_time_on_line(adjacency, from_id, to_id, line)])
    /\ UNCHANGED <<gtfs, adjacency, upstream, clock, cache, startup>>

NextRoute ==
    \/ \E a \in RouteIds, b \in RouteIds : FindRoute(a, b)
    \/ \E a \in Resolved, b \in Resolved : FindRouteByName(a, b)
    \/ \E a \in RouteIds, b \in RouteIds, l \in Lines : TravelTimeOnLine(a, b, l)

InitRoute == InitWith(GtfsChoices, {LocalTrips})

SpecRoute == InitRoute /\ [][NextRoute]_vars

\* ---- real-time arrivals ----
ArrivalStations == {"south_ferry", "chambers_123", "canal_ace", "world_trade"}

LineFilters == {<<>>, <<"1">>, <<"2", "3">>, <<"1", "e">>, <<"X">>}

GetArrivals(station_id, lines, order, outcome) ==
    /\ call = None
    /\ LET r == get_arrivals(cache, station_id, lines, clock, order, Net(outcome))
       IN /\ call' = Some([op |-> "get_arrivals", station |-> station_id,
                           lines |-> lines, now |-> clock])
          /\ ret' = Some([arrivals |-> r.arrivals, raised |-> r.raised])
          /\ cache' = r.cache
    /\ UNCHANGED <<gtfs, adjacency, upstream, clock, startup>>

NextFeed ==
    \/ Tick
    \/ \E st \in ArrivalStations, ls \in LineFilters, out \in NetOutcomes :
          \E o \in ArrivalOrders(st, ls) : GetArrivals(st, ls, o, out)

InitFeed == InitWith({None}, NumberedPayloads)

SpecFeed == InitFeed /\ [][NextFeed]_vars

\* ---- local vs express ----
CompareFrom == {None, Some(STATIONS["south_ferry"]), Some(STATIONS["chambers_123"])}

CompareTo == {Some(STATIONS["14th_123"]), Some(STATIONS["south_ferry"])}

CompareTransfer == {Some(STATIONS["chambers_123"]), Some(STATIONS["south_ferry"])}

CompareExpress == {<<"2", "3">>, <<"e">>}

\* both urls answer, or both fail
CompareOutcomes == {[u \in Urls |-> "ok"], [u \in Urls |-> "fail"]}

\* the second get_arrivals call may run `delay` seconds after the first
Compare(from_st, to_st, xfer_st, local_line, express_lines, out1, out2, order2, delay) ==
    /\ call = None
    /\ clock + delay <= MaxTicks * TickSeconds
    /\ LET r == compare_local_vs_express(adjacency, cache, from_st, to_st, xfer_st,
                    local_line, express_lines,
                    clock, <<LINE_TO_FEED[local_line]>>, Net(out1),
                    clock + delay,
                    order2,
                    Net(out2))
       IN /\ call' = Some([op |-> "compare_local_vs_express", from |-> from_st,
                           to |-> to_st, transfer |-> xfer_st, local_line |-> local_line,
                           express_lines |-> express_lines])
          /\ ret' = Some(r.result)
          /\ cache' = r.cache
          /\ clock' = IF r.result.kind \in {"no_catch", "compared"}
                      THEN clock + delay ELSE clock
    /\ UNCHANGED <<gtfs, adjacency, upstream, startup>>

NextCompare ==
    \/ Tick
    \/ \E f \in CompareFrom, t \in CompareTo, x \in CompareTransfer, e \in CompareExpress,
          o1 \in CompareOutcomes, o2 \in CompareOutcomes, d \in {0, TickSeconds} :
          \E o \in ArrivalOrders(Val(x).id, e) : Compare(f, t, x, "1", e, o1, o2, o, d)

InitCompare == InitWith({None, Some(TableTimed)}, NumberedPayloads)

SpecCompare == InitCompare /\ [][NextCompare]_vars

\* ---- static timetable ----
\* the timetable files the model parses: trips of the 1 and the 2 between
\* Chambers St, Canal St and Houston St (uptown platforms)
Hms(h, m, s) == <<h, m, s>>

TimetableTrips ==
    [T1 |-> << StopTime("T1", Hms(8, 4, 0), Hms(8, 4, 30), Platform("houston", "N"), 3),
               StopTime("T1", Hms(8, 0, 0), Hms(8, 0, 0), Platform("chambers_123", "N"), 1),
               StopTime("T1", Hms(8, 1, 30), Hms(8, 2, 0), Platform("canal_123", "N"), 2) >>,
     T2 |-> << StopTime("T2", Hms(9, 0, 0), Hms(9, 0, 0), Platform("chambers_123", "N"), 1),
               StopTime("T2", Hms(9, 1, 0), Hms(9, 1, 0), Platform("canal_123", "N"), 2) >>,
     T3 |-> << StopTime("T3", Hms(23, 59, 0), Hms(23, 59, 30), Platform("chambers_123", "N"), 1),
               StopTime("T3", Hms(0, 0, 20), Hms(24, 0, 30), Platform("canal_123", "N"), 2),
               StopTime("T3", Hms(24, 31, 0), Hms(24, 31, 0), Platform("houston", "N"), 3) >>,
     T4 |-> << StopTime("T4", Hms(10, 0, 0), Hms(10, 0, 0), Platform("chambers_123", "N"), 1),
               StopTime("T4", Hms(9, 0, 0), Hms(9, 0, 0), Platform("canal_123", "N"), 2),
               StopTime("T4", Hms(9, 30, 0), Hms(9, 30, 0), Platform("houston", "N"), 3) >>,
     T5 |-> << StopTime("T5", Hms(7, 0, 0), Hms(7, 0, 0), Platform("chambers_123", "N"), 1),
               StopTime("T5", Hms(7, 0, 0), <<7, 1>>, Platform("canal_123", "N"), 2),
               StopTime("T5", Hms(7, 3, 0), <<>>, Platform("houston", "N"), 3) >>,
     T6 |-> << StopTime("T6", Hms(6, 0, 0), Hms(6, 0, 0), Platform("chambers_123", "N"), 1),
               StopTime("T6", Hms(6, 0, 10), Hms(6, 0, 10), Platform("canal_123", "N"), 2) >>,
     T7 |-> << StopTime("T7", Hms(5, 0, 0), Hms(5, 0, 0), Platform("chambers_123", "N"), 1),
               StopTime("T7", Hms(5, 0, 5), Hms(5, 0, 5), Platform("canal_123", "N"), 2) >> ]

\* trips.txt: T6 is missing from it and T7 has an empty route_id
TripRoutes == [T1 |-> "1", T2 |-> "1", T3 |-> "1", T4 |-> "1", T5 |-> "2", T7 |-> ""]

\* number of trips in one stop_times.txt
MaxTrips == 3

\* seconds between two _fetch_feed calls, and how often that time passes
FetchStep == 15

MaxFetchSteps == 3

\* the files: the rows of up to MaxTrips distinct trips, in every order
TripSequences ==
    {s \in UNION {[1..n -> DOMAIN TimetableTrips] : n \in 1..MaxTrips} :
        \A i, j \in 1..Len(s) : i # j => s[i] # s[j]}

StopTimesFile(trip_ids) == Flatten([k \in 1..Len(trip_ids) |-> TimetableTrips[trip_ids[k]]])

CalculateTravelTimes(trip_ids) ==
    /\ call = None
    /\ call' = Some([op |-> "calculate_travel_times",
                     stop_times |-> StopTimesFile(trip_ids), trips |-> TripRoutes])
    /\ ret' = Some([travel_times |->
                       calculate_travel_times(StopTimesFile(trip_ids), TripRoutes)])
    /\ UNCHANGED <<gtfs, adjacency, upstream, clock, cache, startup>>

NextGtfs == \E trip_ids \in TripSequences : CalculateTravelTimes(trip_ids)

InitGtfs == InitWith({None}, {LocalTrips})

SpecGtfs == InitGtfs /\ [][NextGtfs]_vars

\* ---- station lookup ----
Substrings(s) == {SubSeq(s, i, j) : i \in 1..Len(s), j \in 0..Len(s)}

\* the queries: every canonical name as displayed, padded with blanks and
\* followed by " station"; every piece of a lower-case name, of an alias or
\* of a station id; and a query that matches nothing
StationQueries ==
    UNION {{STATION_NAMES[k].name,
            <<" ">> \o STATION_NAMES[k].name \o <<" ", " ">>,
            STATION_NAMES[k].name \o <<" ", "s", "t", "a", "t", "i", "o", "n">>}
           \cup Substrings(lower(STATION_NAMES[k].name))
           \cup Substrings(STATION_NAMES[k].id_chars) : k \in 1..Len(STATION_NAMES)}
    \cup UNION {Substrings(STATION_ALIASES[k].alias) : k \in 1..Len(STATION_ALIASES)}
    \cup {<<"x", "y", "z">>}

FindStation(query) ==
    /\ call = None
    /\ call' = Some([op |-> "find_station", query |-> query])
    /\ ret' = Some([station |-> find_station(query)])
    /\ UNCHANGED <<gtfs, adjacency, upstream, clock, cache, startup>>

NextStations == \E query \in StationQueries : FindStation(query)

InitStations == InitWith({None}, {LocalTrips})

SpecStations == InitStations /\ [][NextStations]_vars

\* ---- the feed cache ----
\* what the endpoints may serve while the cache is watched
CachePayloads ==
    [u \in Urls |-> IF u = UrlNumbered THEN {LocalTrips, DowntownOnly}
                    ELSE {AcePayload, <<>>}]

\* time passes between two calls
Wait ==
    /\ clock + FetchStep <= MaxFetchSteps * FetchStep
    /\ clock' = clock + FetchStep
    /\ call' = None
    /\ ret' = None
    /\ UNCHANGED <<gtfs, adjacency, upstream, cache, startup>>

\* an endpoint serves a payload (a new one or the same) between two calls
Publish(url, payload) ==
    /\ upstream' = [upstream EXCEPT ![url] = payload]
    /\ call' = None
    /\ ret' = None
    /\ UNCHANGED <<gtfs, adjacency, clock, cache, startup>>

\* one _fetch_feed(url) call
Fetch(url, outcome) ==
    /\ call = None
    /\ LET f == FetchFeed(cache, url, clock, Net(outcome)[url])
       IN /\ call' = Some([op |-> "fetch_feed", url |-> url, now |-> clock,
                           outcome |-> outcome[url]])
          /\ ret' = Some([feed |-> f.feed, requested |-> f.requested])
          /\ cache' = f.cache
    /\ UNCHANGED <<gtfs, adjacency, upstream, clock, startup>>

NextCache ==
    \/ Wait
    \/ \E u \in Urls : \E p \in CachePayloads[u] : Publish(u, p)
    \/ \E u \in Urls, out \in NetOutcomes : Fetch(u, out)

InitCache == InitWith({None}, {LocalTrips})

SpecCache == InitCache /\ [][NextCache]_vars

(***************************************************************************)
(* Specification of the connection plan: get_transfer_timing over feeds    *)
(* that serve Houston St, 14 St and Chambers St                            *)
(***************************************************************************)
\* an uptown 1 leaving Houston St in 2 min, and uptown 2 trains at 14 St
UptownTrips(minutes) ==
    << Trip("1", "H2", << Stu(Platform("houston", "N"), Some(At(2)), None) >>) >>
    \o [k \in 1..Len(minutes) |->
           Trip("2", "U", << Stu(Platform("14th_123", "N"), Some(At(minutes[k])), None) >>)]

PlanPayloads ==
    { LocalTrips \o ExpressTrips(<< <<"2", 10>>, <<"2", 15>> >>) \o UptownTrips(<<5, 8, 12>>),
      LocalTrips \o ExpressTrips(<< <<"2", 5>> >>) \o UptownTrips(<<6>>),
      LocalTrips \o UptownTrips(<<>>),
      DowntownOnly \o ExpressTrips(<< <<"2", 15>> >>) }

PlanFrom == {None, Some(STATIONS["south_ferry"]), Some(STATIONS["houston"]),
             Some(STATIONS["14th_123"])}

PlanTo == {None, Some(STATIONS["14th_123"]), Some(STATIONS["canal_123"]),
           Some(STATIONS["grand_central"]), Some(STATIONS["spring_ce"])}

GetTransferTiming(from_st, to_st, outcome) ==
    /\ call = None
    /\ LET r == get_transfer_timing(adjacency, gtfs, cache, from_st, to_st, clock,
                                    Net(outcome))
       IN /\ call' = Some([op |-> "get_transfer_timing", from |-> from_st, to |-> to_st,
                           now |-> clock])
          /\ ret' = Some(r.result)
          /\ cache' = r.cache
    /\ UNCHANGED <<gtfs, adjacency, upstream, clock, startup>>

NextPlan ==
    \/ Tick
    \/ \E f \in PlanFrom, t \in PlanTo, o \in CompareOutcomes : GetTransferTiming(f, t, o)

InitPlan == InitWith({None, Some(TableTimed)}, PlanPayloads)

SpecPlan == InitPlan /\ [][NextPlan]_vars

(***************************************************************************)
(* Specification of the travel-time lookup: get_travel_time over tables    *)
(* whose stop ids carry a direction suffix, or not, as stop_times.txt has  *)
(* them                                                                    *)
(***************************************************************************)
LookupBases == {<<"1", "4", "2">>, <<"1", "3", "7">>}

\* a stop id with no suffix, with one, or with two
LookupIds ==
    {b \o s : b \in LookupBases, s \in {<<>>, <<"N">>, <<"S">>, <<"N", "S">>}}

LookupRoutes == {"", "1", "2", "3"}

\* tables keyed by parent stop ids, by platform ids, and by both
LookupTables ==
    { <<<<"1","4","2">>, <<"1","3","7">>, "1">> :> 120 @@
      <<<<"1","4","2">>, <<"1","3","7">>, "2">> :> 90,
      <<<<"1","4","2","N">>, <<"1","3","7","N">>, "1">> :> 120 @@
      <<<<"1","3","7","S">>, <<"1","4","2","S">>, "1">> :> 110,
      <<<<"1","4","2">>, <<"1","3","7">>, "1">> :> 120 @@
      <<<<"1","4","2","N">>, <<"1","3","7","N">>, "1">> :> 100 @@
      <<<<"1","4","2","N">>, <<"1","3","7","N">>, "2">> :> 80 }

GetTravelTime(from_stop_id, to_stop_id, route_id) ==
    /\ call = None
    /\ call' = Some([op |-> "get_travel_time", from |-> from_stop_id, to |-> to_stop_id,
                     route |-> route_id])
    /\ ret' = Some([seconds |-> get_travel_time_optional(Val(gtfs), from_stop_id,
                                                         to_stop_id, route_id)])
    /\ UNCHANGED <<gtfs, adjacency, upstream, clock, cache, startup>>

NextLookup == \E a \in LookupIds, b \in LookupIds, r \in LookupRoutes : GetTravelTime(a, b, r)

InitLookup == InitWith({Some(t) : t \in LookupTables}, {LocalTrips})

SpecLookup == InitLookup /\ [][NextLookup]_vars

(***************************************************************************)
(* gtfs_static.py: get_gtfs_parser, parse_gtfs and download_gtfs, one      *)
(* step of one caller at a time; routing.py: SubwayGraph.__init__          *)
(*                                                                         *)
(*   bundle is "absent", "partial" (opened for writing, body incomplete),  *)
(*   "corrupt" (a complete body that is not a readable bundle) or "valid"  *)
(*   parsers[t] is the instance created by caller t; `parsed` records      *)
(*   whether some parse_gtfs call on it has returned True                  *)
(***************************************************************************)
Callers == {"c1", "c2"}

\* the caller that is SubwayGraph.__init__
Constructor == "c1"

NoParser == [travel_times |-> <<>>, parsed |-> "uncreated"]

\* GTFSStaticParser.__init__: empty tables
NewParser == [travel_times |-> <<>>, parsed |-> "no"]

\* what get_gtfs_parser handed to its caller
Pending == [kind |-> "pending", id |-> "", complete |-> FALSE, table |-> <<>>]

Absent == [kind |-> "absent", id |-> "", complete |-> FALSE, table |-> <<>>]

Raised == [kind |-> "raised", id |-> "", complete |-> FALSE, table |-> <<>>]

Obtained(id) ==
    [kind |-> "parser", id |-> id, complete |-> parsers[id].parsed = "yes",
     table |-> parsers[id].travel_times]

\* a caller: where it stands, the instance its parse_gtfs call runs on, what
\* its download_gtfs and parse_gtfs calls came to ("" while not returned,
\* "true", "false", "raised") and what the caller got
Caller(at) == [at |-> at, self |-> "", download |-> "", parse |-> "", got |-> Pending]

\* the travel times a valid bundle holds, and what _calculate_travel_times
\* has stored when it is half way through the trips
BundleTable == TableTimed

HalfTable == [k \in {key \in DOMAIN BundleTable : key[3] = "1"} |-> BundleTable[k]]

Goto(t, at) == [pc EXCEPT ![t].at = at]

\* line 354: if _gtfs_parser is None
CheckSingleton(t) ==
    /\ pc[t].at = "check"
    /\ pc' = Goto(t, IF singleton = None THEN "create" ELSE "return")
    /\ UNCHANGED <<gtfs, adjacency, upstream, clock, cache, call, ret, bundle,
                   singleton, parsers>>

\* line 355: _gtfs_parser = GTFSStaticParser(...)
CreateParser(t) ==
    /\ pc[t].at = "create"
    /\ parsers' = [parsers EXCEPT ![t] = NewParser]
    /\ singleton' = Some(t)
    /\ pc' = Goto(t, "call")
    /\ UNCHANGED <<gtfs, adjacency, upstream, clock, cache, call, ret, bundle>>

\* line 356: _gtfs_parser.parse_gtfs() reads the global again; on None the
\* attribute lookup raises
CallParse(t) ==
    /\ pc[t].at = "call"
    /\ pc' = IF singleton = None
             THEN [pc EXCEPT ![t].at = "done", ![t].parse = "raised", ![t].got = Raised]
             ELSE [pc EXCEPT ![t].at = "exists", ![t].self = Val(singleton)]
    /\ UNCHANGED <<gtfs, adjacency, upstream, clock, cache, call, ret, bundle,
                   singleton, parsers>>

\* parse_gtfs line 100: if not self.gtfs_path.exists()
BundleExists(t) ==
    /\ pc[t].at = "exists"
    /\ pc' = Goto(t, IF bundle = "absent" THEN "download" ELSE "open")
    /\ UNCHANGED <<gtfs, adjacency, upstream, clock, cache, call, ret, bundle,
                   singleton, parsers>>

\* download_gtfs lines 58-75: the exists test, mkdir (outside the try, so
\* its error leaves parse_gtfs and get_gtfs_parser), the request and the
\* opening of the bundle file for writing
DownloadOutcomes == {"mkdir_error", "timeout", "connection_error", "http_error", "opened"}

Download(t, outcome) ==
    /\ pc[t].at = "download"
    /\ IF bundle # "absent"
       THEN /\ pc' = [pc EXCEPT ![t].at = "open", ![t].download = "true"]
            /\ UNCHANGED bundle
       ELSE IF outcome = "mkdir_error"
       THEN /\ pc' = [pc EXCEPT ![t].at = "done", ![t].download = "raised",
                                ![t].parse = "raised", ![t].got = Raised]
            /\ UNCHANGED bundle
       ELSE IF outcome = "opened"
       THEN /\ pc' = Goto(t, "body")
            /\ bundle' = "partial"
       ELSE /\ pc' = [pc EXCEPT ![t].at = "failed", ![t].download = "false",
                                ![t].parse = "false"]
            /\ UNCHANGED bundle
    /\ UNCHANGED <<gtfs, adjacency, upstream, clock, cache, call, ret, singleton, parsers>>

\* download_gtfs lines 75-92: the chunks are written; an error part way
\* is caught and False returned
BodyOutcomes == {"complete", "garbled", "broken"}

DownloadBody(t, outcome) ==
    /\ pc[t].at = "body"
    /\ IF outcome = "broken"
       THEN /\ pc' = [pc EXCEPT ![t].at = "failed", ![t].download = "false",
                                ![t].parse = "false"]
            /\ UNCHANGED bundle
       ELSE /\ pc' = [pc EXCEPT ![t].at = "open", ![t].download = "true"]
            /\ bundle' = IF outcome = "complete" THEN "valid" ELSE "corrupt"
    /\ UNCHANGED <<gtfs, adjacency, upstream, clock, cache, call, ret, singleton, parsers>>

\* parse_gtfs lines 104-116: the archive is opened and its files read
OpenBundle(t) ==
    /\ pc[t].at = "open"
    /\ pc' = IF bundle = "valid" THEN Goto(t, "calculate")
             ELSE [pc EXCEPT ![t].at = "failed", ![t].parse = "false"]
    /\ UNCHANGED <<gtfs, adjacency, upstream, clock, cache, call, ret, bundle,
                   singleton, parsers>>

\* parse_gtfs line 119: _calculate_travel_times fills self.travel_times
\* key by key
CalculateSome(t) ==
    /\ pc[t].at = "calculate"
    /\ parsers' = [parsers EXCEPT ![pc[t].self].travel_times = HalfTable]
    /\ pc' = Goto(t, "calculate_rest")
    /\ UNCHANGED <<gtfs, adjacency, upstream, clock, cache, call, ret, bundle, singleton>>

\* ... and parse_gtfs returns True (line 122)
CalculateRest(t) ==
    /\ pc[t].at = "calculate_rest"
    /\ parsers' = [parsers EXCEPT ![pc[t].self] =
                       [travel_times |-> BundleTable, parsed |-> "yes"]]
    /\ pc' = [pc EXCEPT ![t].at = "return", ![t].parse = "true"]
    /\ UNCHANGED <<gtfs, adjacency, upstream, clock, cache, call, ret, bundle, singleton>>

\* lines 356-358: parse_gtfs returned False
ParseFailed(t) ==
    /\ pc[t].at = "failed"
    /\ singleton' = None
    /\ pc' = [pc EXCEPT ![t].at = "done", ![t].got = Absent]
    /\ UNCHANGED <<gtfs, adjacency, upstream, clock, cache, call, ret, bundle, parsers>>

\* line 359: return _gtfs_parser
ReturnSingleton(t) ==
    /\ pc[t].at = "return"
    /\ pc' = [pc EXCEPT ![t].at = "done",
                        ![t].got = IF singleton = None THEN Absent
                                   ELSE Obtained(Val(singleton))]
    /\ UNCHANGED <<gtfs, adjacency, upstream, clock, cache, call, ret, bundle,
                   singleton, parsers>>

GetGtfsParser(t) ==
    \/ CheckSingleton(t)
    \/ CreateParser(t)
    \/ CallParse(t)
    \/ BundleExists(t)
    \/ \E outcome \in DownloadOutcomes : Download(t, outcome)
    \/ \E outcome \in BodyOutcomes : DownloadBody(t, outcome)
    \/ OpenBundle(t)
    \/ CalculateSome(t)
    \/ CalculateRest(t)
    \/ ParseFailed(t)
    \/ ReturnSingleton(t)

\* SubwayGraph.__init__ keeping whatever instance the call created
ConstructorParserUnchecked(got) ==
    IF got.kind = "raised" THEN None ELSE Some(got.table)

\* SubwayGraph.__init__ lines 228-235: self.gtfs_parser is what
\* get_gtfs_parser returned, and None when it raised
ConstructorParser(got) ==
    IF got.kind = "parser" THEN Some(got.table) ELSE None

\* SubwayGraph.__init__ line 236: _build_graph
Construct ==
    /\ pc[Constructor].at = "done"
    /\ gtfs' = ConstructorParser(pc[Constructor].got)
    /\ adjacency' = BuildGraph(gtfs')
    /\ pc' = Goto(Constructor, "built")
    /\ UNCHANGED <<upstream, clock, cache, call, ret, bundle, singleton, parsers>>

\* ---- start-up of one process after another ----
\* SpecStartup: the process imports routing.py, which constructs the graph
\* (routing.py line 464); queries follow; a later run of the process finds
\* the bundle file as the earlier run left it
StartupIds == {"south_ferry", "chambers_123", "14th_123", "grand_central", "nowhere"}

Built == pc[Constructor].at = "built"

StartupQuery ==
    /\ Built
    /\ \/ \E a \in StartupIds, b \in StartupIds : FindRoute(a, b)
       \/ \E a \in StartupIds, b \in StartupIds, l \in Lines : TravelTimeOnLine(a, b, l)

Restart ==
    /\ Built
    /\ gtfs' = None
    /\ adjacency' = <<>>
    /\ singleton' = None
    /\ parsers' = [t \in Callers |-> NoParser]
    /\ pc' = [t \in Callers |-> Caller(IF t = Constructor THEN "check" ELSE "off")]
    /\ call' = None
    /\ ret' = None
    /\ UNCHANGED <<upstream, clock, cache, bundle>>

NextStartup ==
    \/ GetGtfsParser(Constructor)
    \/ Construct
    \/ StartupQuery
    \/ Restart

InitStartup ==
    /\ gtfs = None
    /\ adjacency = <<>>
    /\ upstream = [u \in Urls |-> IF u = UrlNumbered THEN LocalTrips ELSE AcePayload]
    /\ clock = 0
    /\ cache = EmptyCache
    /\ call = None
    /\ ret = None
    /\ bundle = "absent"
    /\ singleton = None
    /\ parsers = [t \in Callers |-> NoParser]
    /\ pc = [t \in Callers |-> Caller(IF t = Constructor THEN "check" ELSE "off")]

SpecStartup == InitStartup /\ [][NextStartup]_vars

\* ---- concurrent callers of get_gtfs_parser ----
\* SpecSingleton: every caller runs get_gtfs_parser once, their steps
\* interleaved; the bundle is cached or still to be downloaded
NextSingleton == \E t \in Callers : GetGtfsParser(t)

InitSingleton ==
    /\ gtfs = None
    /\ adjacency = <<>>
    /\ upstream = [u \in Urls |-> IF u = UrlNumbered THEN LocalTrips ELSE AcePayload]
    /\ clock = 0
    /\ cache = EmptyCache
    /\ call = None
    /\ ret = None
    /\ bundle \in {"absent", "valid"}
    /\ singleton = None
    /\ parsers = [t \in Callers |-> NoParser]
    /\ pc = [t \in Callers |-> Caller("check")]

SpecSingleton == InitSingleton /\ [][NextSingleton]_vars

\* ---- callers racing in _fetch_feed ----
\* SpecRace: the callers run _fetch_feed on one endpoint, their steps
\* interleaved with each other, with the passing of time and with the
\* endpoint publishing. A cache entry carries, next to the pair the code
\* stores, the moment its payload was downloaded and the moment the payload
\* it replaced had been downloaded (history, not read by the code).
RaceUrl == UrlNumbered

\* a caller of _fetch_feed: where it stands, the feed it downloaded and when,
\* and what it returned
Fetcher(at) == [at |-> at, feed |-> None, downloaded |-> 0, result |-> None]

\* lines 42-45: the cache test
CheckCache(t) ==
    /\ pc[t].at = "check"
    /\ pc' = IF cache[RaceUrl] # None /\ clock - Val(cache[RaceUrl]).time < CACHE_TTL
             THEN [pc EXCEPT ![t].at = "done",
                             ![t].result = Some(Val(cache[RaceUrl]).data)]
             ELSE [pc EXCEPT ![t].at = "request"]
    /\ UNCHANGED <<gtfs, adjacency, upstream, clock, cache, call, ret, bundle,
                   singleton, parsers>>

\* lines 47-55: the request and the parsing of the body; any exception
\* returns None (lines 59-61)
RequestFeed(t, outcome) ==
    /\ pc[t].at = "request"
    /\ pc' = IF outcome = "ok"
             THEN [pc EXCEPT ![t].at = "store", ![t].feed = Some(upstream[RaceUrl]),
                             ![t].downloaded = clock]
             ELSE [pc EXCEPT ![t].at = "done"]
    /\ UNCHANGED <<gtfs, adjacency, upstream, clock, cache, call, ret, bundle,
                   singleton, parsers>>

\* lines 57-58: self._cache[feed_url] = (time.time(), feed); return feed
StoreFeed(t) ==
    /\ pc[t].at = "store"
    /\ cache' = [cache EXCEPT ![RaceUrl] =
                    Some([time |-> clock, data |-> Val(pc[t].feed),
                          downloaded |-> pc[t].downloaded,
                          replaced |-> IF cache[RaceUrl] = None THEN pc[t].downloaded
                                       ELSE Val(cache[RaceUrl]).downloaded])]
    /\ pc' = [pc EXCEPT ![t].at = "done", ![t].result = pc[t].feed]
    /\ UNCHANGED <<gtfs, adjacency, upstream, clock, call, ret, bundle,
                   singleton, parsers>>

\* the caller's next query calls _fetch_feed again
FetchAgain(t) ==
    /\ pc[t].at = "done"
    /\ pc' = [pc EXCEPT ![t] = Fetcher("check")]
    /\ UNCHANGED <<gtfs, adjacency, upstream, clock, cache, call, ret, bundle,
                   singleton, parsers>>

FetchFeedStep(t) ==
    \/ CheckCache(t)
    \/ \E outcome \in {"ok", "fail"} : RequestFeed(t, outcome)
    \/ StoreFeed(t)
    \/ FetchAgain(t)

NextRace ==
    \/ \E t \in Callers : FetchFeedStep(t)
    \/ Wait
    \/ \E p \in CachePayloads[RaceUrl] : Publish(RaceUrl, p)

InitRace ==
    /\ gtfs = None
    /\ adjacency = BuildGraph(None)
    /\ upstream = [u \in Urls |-> IF u = UrlNumbered THEN LocalTrips ELSE AcePayload]
    /\ clock = 0
    /\ cache = EmptyCache
    /\ call = None
    /\ ret = None
    /\ bundle = "valid"
    /\ singleton = None
    /\ parsers = <<>>
    /\ pc = [t \in Callers |-> Fetcher("check")]

SpecRace == InitRace /\ [][NextRace]_vars

(***************************************************************************)
(* Properties of the planner (checked under SpecRoute)                     *)
(***************************************************************************)
IsCall(op) == call # None /\ Val(call).op = op

Args == Val(call)

Result == Val(ret)

\* stations joined to `from_id` by edges of the graph, whatever the line
RECURSIVE Connected(_)
Connected(S) ==
    LET next == S \cup UNION {{adjacency[x][k][1] : k \in 1..Len(adjacency[x])} : x \in S}
    IN IF next = S THEN S ELSE Connected(next)

PathExists(from_id, to_id) ==
    /\ from_id \in DOMAIN adjacency
    /\ to_id \in DOMAIN adjacency
    /\ to_id \in Connected({from_id})

\* the (station, line, cost) triples some path from `from_id` reaches at a
\* cost below `limit`: a path boards one of the origin's lines for nothing,
\* pays each edge's weight and TRANSFER_TIME at each change of line
RECURSIVE CheaperStates(_, _)
CheaperStates(S, limit) ==
    LET step == UNION {
            { <<adjacency[t[1]][k][1], adjacency[t[1]][k][2],
                t[3] + adjacency[t[1]][k][3]
                     + (IF adjacency[t[1]][k][2] # t[2] THEN TRANSFER_TIME ELSE 0)>> :
              k \in 1..Len(adjacency[t[1]]) } : t \in S }
        next == S \cup {t \in step : t[3] < limit}
    IN IF next = S THEN S ELSE CheaperStates(next, limit)

\* some path from from_id to to_id costs less than `limit`
CheaperPath(from_id, to_id, limit) ==
    LET seeds == {<<from_id, l, 0>> : l \in Range(STATIONS[from_id].lines)}
    IN \E t \in CheaperStates({x \in seeds : x[3] < limit}, limit) : t[1] = to_id

\* C1: for every station x of the graph, find_route(x, x) returns a Route
\* with zero segments, total_time_minutes = 0 and transfer_count = 0.
C1_SameStationRouteIsZero ==
    (IsCall("find_route") /\ Args.from = Args.to /\ Args.from \in DOMAIN adjacency)
    => /\ Result.route # None
       /\ Val(Result.route).segments = <<>>
       /\ Val(Result.route).total_time_minutes = 0
       /\ Val(Result.route).transfer_count = 0

\* C2: whenever find_route returns a Route, its total_time_minutes is at
\* least the sum of its segments' travel_time_minutes.
C2_TotalAtLeastSegmentSum ==
    (IsCall("find_route") /\ Result.route # None)
    => Val(Result.route).total_time_minutes
         >= SumSeq(SegmentTimes(Val(Result.route).segments))

\* C3: with the default per-hop weights, for every origin and destination
\* joined by a path find_route returns a Route, and no path between them
\* costs less than Route.total_time_minutes.
C3_RouteIsOptimal ==
    (IsCall("find_route") /\ gtfs = None /\ PathExists(Args.from, Args.to))
    => /\ Result.route # None
       /\ ~CheaperPath(Args.from, Args.to, Val(Result.route).total_time_minutes)

\* C3 witness: South Ferry -> 14th St, where staying on the 1 (16 min) loses
\* to changing to the express at Chambers St (15 min)
C3_Witness ==
    /\ IsCall("find_route") /\ gtfs = None
    /\ Args.from = "south_ferry" /\ Args.to = "14th_123"
    /\ Result.route # None
    /\ Val(Result.route).total_time_minutes = 15
    /\ Val(Result.route).transfer_count = 1

\* C4: find_route always returns None or a Route; it returns None when an
\* id is not in the graph or the destination cannot be reached, and the
\* name-based find_route returns None when a name resolves to no station.
C4_NotFoundIsNone ==
    /\ IsCall("find_route") =>
          /\ Result.route = None \/ Len(Result.route) = 1
          /\ Result.route # None =>
                DOMAIN Val(Result.route)
                   = {"segments", "total_time_minutes", "transfer_count"}
          /\ ~PathExists(Args.from, Args.to) => Result.route = None
    /\ IsCall("find_route_by_name") =>
          /\ (Args.from = None \/ Args.to = None) => Result.route = None
          /\ (Args.from # None /\ Args.to # None
                /\ ~PathExists(Val(Args.from).id, Val(Args.to).id)) => Result.route = None

\* C4 witness: a destination in the graph that no path reaches, and a name
\* that resolves to nothing
C4_Witness ==
    \/ /\ IsCall("find_route")
       /\ Args.from = "south_ferry" /\ Args.to = "spring_ce"
       /\ {Args.from, Args.to} \subseteq DOMAIN adjacency
       /\ Result.route = None
    \/ /\ IsCall("find_route_by_name")
       /\ Args.from = None /\ Args.to # None
       /\ Result.route = None

\* both ids lie on the line's sequence
OnLine(from_id, to_id, line) ==
    {from_id, to_id} \subseteq Range(LINE_SEQUENCES[line])

\* C5 as stated: get_travel_time_on_line(a, b, line) returns a value iff
\* get_travel_time_on_line(b, a, line) does, and for two distinct stations
\* of one line's sequence the value is a positive number of minutes.
C5_SymmetricAndPositive ==
    IsCall("get_travel_time_on_line") =>
       /\ (Result.minutes # None) <=>
             (get_travel_time_on_line(adjacency, Args.to, Args.from, Args.line) # None)
       /\ (Args.from # Args.to /\ OnLine(Args.from, Args.to, Args.line))
             => (Result.minutes # None /\ Val(Result.minutes) > 0)

\* C5 amended: success is symmetric, and for two distinct stations of one
\* line's sequence that are both in the station catalog the value is a
\* number of minutes >= 0, positive with the default per-hop weights.
C5_SymmetricAndNonNegative ==
    IsCall("get_travel_time_on_line") =>
       /\ (Result.minutes # None) <=>
             (get_travel_time_on_line(adjacency, Args.to, Args.from, Args.line) # None)
       /\ (Args.from # Args.to /\ OnLine(Args.from, Args.to, Args.line)
             /\ {Args.from, Args.to} \subseteq StationIds)
             => /\ Result.minutes # None
                /\ Val(Result.minutes) >= 0
                /\ gtfs = None => Val(Result.minutes) > 0

\* C5 witness: Chambers St -> South Ferry on the 1 with default weights
C5_Witness ==
    /\ IsCall("get_travel_time_on_line") /\ gtfs = None
    /\ Args.from = "chambers_123" /\ Args.to = "south_ferry" /\ Args.line = "1"
    /\ Result.minutes = Some(8)
    /\ get_travel_time_on_line(adjacency, "south_ferry", "chambers_123", "1") = Some(8)

(***************************************************************************)
(* Properties of the arrival client (checked under SpecFeed)               *)
(***************************************************************************)
\* C6: the list returned by get_arrivals is sorted ascending by predicted
\* arrival time and holds no arrival with minutes_until < 0.
C6_ArrivalsSortedAndFuture ==
    IsCall("get_arrivals") =>
       LET arrivals == Result.arrivals
       IN /\ \A i, j \in 1..Len(arrivals) :
                i < j => arrivals[i].arrival_time <= arrivals[j].arrival_time
          /\ \A i \in 1..Len(arrivals) : arrivals[i].minutes_until >= 0

\* C6 witness: South Ferry answered from both feeds; the train listed first
\* in the feed comes out last, the update 100 s in the past is gone and the
\* one at 10 s leads the list
C6_Witness ==
    /\ IsCall("get_arrivals")
    /\ Args.station = "south_ferry" /\ Args.lines = <<"1", "e">>
    /\ Len(Result.arrivals) = 5
    /\ Result.arrivals[5].trip_id = "L9"
    /\ \E i \in 1..5 : Result.arrivals[i].trip_id = "E5"
    /\ Result.arrivals[1].trip_id = "P0" /\ Result.arrivals[1].arrival_time = 10

(***************************************************************************)
(* Properties of compare_local_vs_express (checked under SpecCompare)      *)
(***************************************************************************)
\* the comparison went as far as looking for an express
Compared == IsCall("compare_local_vs_express") /\ Result.kind \in {"no_catch", "compared"}

TransferElsewhere == Val(Args.transfer).id # Val(Args.from).id

\* the rider's earliest feasible connection: next local departure + local
\* travel time origin -> transfer + buffer
EarliestConnection ==
    Result.local_minutes[1] + Val(Result.o2x) + TRANSFER_BUFFER_MIN

\* minutes_until of the same-direction express arrivals that can be caught
CatchableMinutes ==
    {Result.xfer_minutes[k] : k \in {i \in 1..Len(Result.xfer_minutes) :
                                        Result.xfer_minutes[i] >= EarliestConnection}}

SetMin(S) == CHOOSE m \in S : \A n \in S : m <= n

C8_LowerTransferTotalWins ==
    (Compared /\ Result.kind = "compared" /\ CatchableMinutes # {}
       /\ Result.transfer_total < Result.direct_total)
    => /\ Result.recommendation = "transfer"
       /\ Result.saves = Result.direct_total - Result.transfer_total

\* C8 witness: the 12-minute express is caught at Chambers St and wins by 5
C8_Witness ==
    /\ Compared /\ TransferElsewhere /\ Result.kind = "compared"
    /\ Result.express_depart_min = 12 /\ CatchableMinutes = {12}
    /\ Result.direct_total = 19 /\ Result.transfer_total = 14
    /\ Result.recommendation = "transfer" /\ Result.saves = 5

\* C9: when a catchable express arrival exists and the two totals are
\* equal, the result names no unique winner: it recommends neither option.
C9_TieHasNoWinner ==
    (Compared /\ Result.kind = "compared" /\ CatchableMinutes # {}
       /\ Result.transfer_total = Result.direct_total)
    => Result.recommendation \notin {"local", "transfer"}

\* the scenario of the worked example: local in 3 min, expresses at 10, 15
\* and 20 min, static times 8 (origin -> transfer), 8 + 6 (origin ->
\* destination) and 4 (transfer -> destination by express)
WorkedExample ==
    /\ Compared /\ TransferElsewhere
    /\ Result.local_minutes[1] = 3
    /\ Result.xfer_minutes = <<10, 15, 20>>
    /\ Result.o2x = Some(8) /\ Result.o2d = Some(14) /\ Result.x2d = Some(4)

\* C10: local total = next local departure + static local time origin ->
\* destination; transfer total = m + static express time transfer ->
\* destination, m being the earliest same-direction express arrival with
\* m >= local departure + static local time origin -> transfer + buffer;
\* the worked example gives 17 and 19 and recommends the local, saving 2.
C10_TotalsFollowCatchableRule ==
    Compared =>
       /\ Result.direct_total = Result.local_minutes[1] + Val(Result.o2d)
       /\ Result.kind = "compared" =>
             /\ CatchableMinutes # {}
             /\ Result.express_depart_min = SetMin(CatchableMinutes)
             /\ Result.transfer_total = SetMin(CatchableMinutes) + Val(Result.x2d)
       /\ WorkedExample =>
             /\ Result.direct_total = 17
             /\ Result.kind = "compared" /\ Result.transfer_total = 19
             /\ Result.recommendation = "local" /\ Result.saves = 2

(***************************************************************************)
(* Properties of the static timetable (checked under SpecGtfs)             *)
(***************************************************************************)
Reverse(s) == [k \in 1..Len(s) |-> s[Len(s) + 1 - k]]

\* the rows of the trips that have a route, as a set
RoutedRows ==
    {Args.stop_times[k] : k \in {i \in 1..Len(Args.stop_times) :
        /\ Args.stop_times[i].trip_id \in DOMAIN Args.trips
        /\ Args.trips[Args.stop_times[i].trip_id] # ""}}

\* b is the stop after a on the same trip
NextStop(a, b) ==
    /\ a.trip_id = b.trip_id /\ a.stop_sequence < b.stop_sequence
    /\ \A c \in RoutedRows :
          c.trip_id = a.trip_id =>
             ~(a.stop_sequence < c.stop_sequence /\ c.stop_sequence < b.stop_sequence)

\* elapsed seconds from departure at a to arrival at b, a negative value
\* read as a midnight rollover; the pair is valid when this is in 0..1800
Elapsed(a, b) ==
    LET e == (b.arrival_time[1] * 3600 + b.arrival_time[2] * 60 + b.arrival_time[3])
             - (a.departure_time[1] * 3600 + a.departure_time[2] * 60 + a.departure_time[3])
    IN IF e < 0 THEN e + 86400 ELSE e

ValidPairs ==
    {p \in RoutedRows \X RoutedRows :
        /\ NextStop(p[1], p[2])
        /\ Len(p[1].departure_time) = 3 /\ Len(p[2].arrival_time) = 3
        /\ Elapsed(p[1], p[2]) \in 0..1800}

KeyOf(p) == <<p[1].stop_id, p[2].stop_id, Args.trips[p[1].trip_id]>>

\* C11: the travel-time table holds, for every (from-stop, to-stop, route)
\* key, exactly the minimum elapsed time over the valid consecutive
\* stop-time pairs of the route's trips; invalid pairs never contribute,
\* every value is in [0, 1800], and the order of the trips does not matter.
C11_TableIsMinimumOfValidPairs ==
    IsCall("calculate_travel_times") =>
       LET table == Result.travel_times
       IN /\ DOMAIN table = {KeyOf(p) : p \in ValidPairs}
          /\ \A key \in DOMAIN table :
                /\ \E p \in ValidPairs : KeyOf(p) = key /\ Elapsed(p[1], p[2]) = table[key]
                /\ \A p \in ValidPairs : KeyOf(p) = key => table[key] <= Elapsed(p[1], p[2])
                /\ table[key] \in 0..1800
          /\ table = TravelTimesLoop(<<>>, Args.stop_times, Args.trips,
                                     Reverse(TripOrder(Args.stop_times, <<>>)))

\* C11 witness: T1 (90 s), the unrouted T7 (5 s) and the rollover trip T3
\* (50 s, then 1830 s) give Chambers -> Canal 50 s and Canal -> Houston the
\* 120 s of T1
C11_Witness ==
    /\ IsCall("calculate_travel_times")
    /\ TripOrder(Args.stop_times, <<>>) = <<"T1", "T7", "T3">>
    /\ Result.travel_times[<<Platform("chambers_123", "N"), Platform("canal_123", "N"), "1">>] = 50
    /\ Result.travel_times[<<Platform("canal_123", "N"), Platform("houston", "N"), "1">>] = 120

(***************************************************************************)
(* Properties of the station lookup (checked under SpecStations)           *)
(***************************************************************************)
\* C12: find_station called with a station's exact canonical name returns that
\* same station, also when several stations share the name or the name is
\* a key of the alias table.
C12_CanonicalNameResolves ==
    IsCall("find_station") =>
       \A k \in 1..Len(STATION_NAMES) :
          Args.query = STATION_NAMES[k].name => Result.station = Some(STATION_NAMES[k].id)

(***************************************************************************)
(* More properties of the arrival client (checked under SpecFeed)          *)
(***************************************************************************)
\* the endpoints a get_arrivals call got a payload from: after the call
\* their cache entry is younger than the TTL (just fetched, or reused)
Delivered ==
    IF Args.station \notin StationIds THEN {}
    ELSE {u \in FeedUrls(STATIONS[Args.station], Args.lines) :
             cache[u] # None /\ Args.now - Val(cache[u]).time < CACHE_TTL}

\* the arrivals the payloads of those endpoints hold for the call
DeliveredArrivals ==
    UNION {Range(FeedArrivals(Val(cache[u]).data, STATIONS[Args.station],
                              Args.lines, Args.now)) : u \in Delivered}

\* C13: get_arrivals never raises: whatever the station id, the filter and the
\* outcome of each fetch it returns a list, made of the arrivals of the
\* endpoints that delivered a payload and of nothing from those that failed;
\* an unknown station id or a filter of unknown line codes gives the empty list.
C13_GetArrivalsNeverRaises ==
    IsCall("get_arrivals") =>
       /\ ~Result.raised
       /\ Range(Result.arrivals) = DeliveredArrivals
       /\ Args.station \notin StationIds => Result.arrivals = <<>>
       /\ (Args.lines # <<>> /\ \A l \in Range(Args.lines) : Upper(l) \notin DOMAIN LINE_TO_FEED)
             => Result.arrivals = <<>>

(***************************************************************************)
(* Properties of the feed cache (checked under SpecCache)                  *)
(***************************************************************************)
\* the step is a _fetch_feed(u) call
FetchStepOf(u) == call = None /\ call' # None /\ Val(call').op = "fetch_feed" /\ Val(call').url = u

\* the endpoint's last successful fetch is younger than the TTL
Young(u) == cache[u] # None /\ clock - Val(cache[u]).time < CACHE_TTL

FetchRule(u) ==
    /\ Young(u) => /\ ~Val(ret').requested
                   /\ Val(ret').feed = Some(Val(cache[u]).data)
                   /\ cache' = cache
    /\ ~Young(u) => /\ Val(ret').requested
                    /\ Val(call').outcome = "ok" =>
                          /\ Val(ret').feed = Some(upstream[u])
                          /\ cache'[u] = Some([time |-> clock, data |-> upstream[u]])
    /\ \A v \in Urls \ {u} : cache'[v] = cache[v]

\* C14: a _fetch_feed call for an endpoint whose last successful fetch is
\* younger than 30 seconds returns the cached payload and issues no network
\* request; with no entry or an entry 30 seconds old or older it issues a
\* request and, on success, replaces the entry; a fetch for one endpoint
\* never changes another endpoint's entry.
C14_CacheHonoursTtlPerEndpoint ==
    [][\A u \in Urls : FetchStepOf(u) => FetchRule(u)]_vars

\* C14 witness: 15 seconds after it was fetched the payload is answered from
\* the cache although the endpoint now serves another one, and the other
\* endpoint's entry is still there
C14_Witness ==
    /\ IsCall("fetch_feed") /\ Args.url = UrlNumbered /\ Args.now = 15
    /\ ~Result.requested
    /\ Val(cache[UrlNumbered]).time = 0
    /\ Result.feed = Some(Val(cache[UrlNumbered]).data)
    /\ Result.feed # Some(upstream[UrlNumbered])
    /\ cache[UrlAce] # None

(***************************************************************************)
(* Provenance of the times in a Route (checked under SpecRoute)            *)
(***************************************************************************)
\* the hops <<segment, hop>> of a route whose time is the fixed per-hop
\* default when the route is computed with the timetable g
EstimatedHops(g, route) ==
    {h \in UNION {{<<i, k>> : k \in 1..(Len(route.segments[i].stops) - 1)} :
                     i \in 1..Len(route.segments)} :
        \/ g = None
        \/ get_travel_time(Val(g),
                           StopOf(route.segments[h[1]].stops[h[2]]),
                           StopOf(route.segments[h[1]].stops[h[2] + 1]),
                           route.segments[h[1]].line) = None}

\* C15: the time components of a returned Route are marked as estimated or
\* not: the Route tells which of its times come from the per-hop default, so
\* two equal Routes never differ in which hops were estimated.
C15_EstimatesAreMarked ==
    (IsCall("find_route") /\ Result.route # None) =>
       \A g \in GtfsChoices :
          GraphFindRoute(BuildGraph(g), g, Args.from, Args.to) = Result.route
          => EstimatedHops(g, Val(Result.route)) = EstimatedHops(gtfs, Val(Result.route))

(***************************************************************************)
(* The matching order of find_station (checked under SpecStations)         *)
(***************************************************************************)
Normalized == strip(lower(Args.query))

Catalog == 1..Len(STATION_NAMES)

AliasHits == {k \in 1..Len(STATION_ALIASES) : STATION_ALIASES[k].alias = Normalized}

FullName(k) == lower(STATION_NAMES[k].name)

IdHits == {k \in Catalog : IsSubstring(Normalized, STATION_NAMES[k].id_chars)}

IdsOf(S) == {Some(STATION_NAMES[k].id) : k \in S}

\* rule (3) as worded: the stations whose full name contains the query and
\* is as short as any that does
NameHits == {k \in Catalog : IsSubstring(Normalized, FullName(k))}

ShortestNameHits ==
    {k \in NameHits : \A j \in NameHits : Len(FullName(k)) <= Len(FullName(j))}

NamesOf(k) == Range(StationKeys(FullName(k)))

IndexNames == UNION {NamesOf(k) : k \in Catalog}

\* the station an index name leads to: the last one in the catalog that has it
Holder(name) == CHOOSE k \in Catalog :
                   name \in NamesOf(k) /\ \A j \in Catalog : name \in NamesOf(j) => j <= k

\* index names that contain the query or are contained in it
LooseHits ==
    {n \in IndexNames : IsSubstring(Normalized, n) \/ IsSubstring(n, Normalized)}

ShortestLooseHits == {n \in LooseHits : \A o \in LooseHits : Len(n) <= Len(o)}

HasEdge(from_id, to_id, line) ==
    /\ from_id \in DOMAIN adjacency
    /\ \E k \in 1..Len(adjacency[from_id]) :
          adjacency[from_id][k][1] = to_id /\ adjacency[from_id][k][2] = line

SegmentWellFormed(seg) ==
    /\ Len(seg.stops) >= 2
    /\ seg.stops[1] = seg.from_station
    /\ seg.stops[Len(seg.stops)] = seg.to_station
    /\ \A j \in 1..(Len(seg.stops) - 1) : HasEdge(seg.stops[j], seg.stops[j + 1], seg.line)

\* C17: a Route returned by find_route has zero segments iff origin =
\* destination; every segment has at least two stops, starts at its
\* from_station, ends at its to_station and every hop between consecutive
\* stops is an edge of the segment's line; adjacent segments ride different
\* lines, and the last station of each segment is the first of the next.
C17_SegmentsFormAChain ==
    (IsCall("find_route") /\ Result.route # None) =>
       LET segments == Val(Result.route).segments
       IN /\ (segments = <<>>) <=> (Args.from = Args.to)
          /\ \A k \in 1..Len(segments) : SegmentWellFormed(segments[k])
          /\ \A k \in 1..(Len(segments) - 1) :
                /\ segments[k].line # segments[k + 1].line
                /\ segments[k].stops[Len(segments[k].stops)] = segments[k + 1].stops[1]

\* C17 witness: South Ferry -> 14th St, a local segment of five stops to
\* Chambers St and an express segment from there
C17_Witness ==
    /\ IsCall("find_route") /\ Result.route # None
    /\ Args.from = "south_ferry" /\ Args.to = "14th_123"
    /\ Len(Val(Result.route).segments) = 2
    /\ Len(Val(Result.route).segments[1].stops) = 5
    /\ Val(Result.route).segments[1].to_station = "chambers_123"
    /\ Val(Result.route).segments[2].from_station = "chambers_123"
    /\ Val(Result.route).segments[1].line # Val(Result.route).segments[2].line

(***************************************************************************)
(* Travel time on one line (checked under SpecRoute)                       *)
(***************************************************************************)
\* <<station, stations passed, minutes>> of the paths from the triples of S
\* that use edges of `line` only and pass no station twice
RECURSIVE LinePaths(_, _)
LinePaths(S, line) ==
    LET step == UNION {
            { <<adjacency[t[1]][k][1], t[2] \cup {adjacency[t[1]][k][1]},
                t[3] + adjacency[t[1]][k][3]>> :
              k \in {i \in 1..Len(adjacency[t[1]]) :
                        /\ adjacency[t[1]][i][2] = line
                        /\ adjacency[t[1]][i][1] \notin t[2]} } :
            t \in {x \in S : x[1] \in DOMAIN adjacency} }
        next == S \cup step
    IN IF next = S THEN S ELSE LinePaths(next, line)

\* the sums of the edge weights of the paths from_id -> to_id on `line`
LinePathSums(from_id, to_id, line) ==
    {t[3] : t \in {x \in LinePaths({<<from_id, {from_id}, 0>>}, line) : x[1] = to_id}}

FloorMinutes(seconds) == seconds \div 60

\* C19: minutes_until of a returned arrival is floor((predicted - now) / 60),
\* and every update whose floor is negative, that is whose predicted time is
\* earlier than now by any amount, is dropped.
C19_FloorOfMinutesNoPastArrival ==
    IsCall("get_arrivals") =>
       \A i \in 1..Len(Result.arrivals) :
          /\ Result.arrivals[i].minutes_until
                = FloorMinutes(Result.arrivals[i].arrival_time - Args.now)
          /\ FloorMinutes(Result.arrivals[i].arrival_time - Args.now) >= 0
          /\ Result.arrivals[i].arrival_time >= Args.now

(***************************************************************************)
(* Comparing trains at one station (checked under SpecCompare)             *)
(***************************************************************************)
\* C20: when the transfer station is the origin the catchable rule still
\* applies, with zero travel time to the transfer: an express counts only
\* if its minutes_until >= next local departure + buffer, and if none
\* qualifies the recommendation is to stay on the local.
C20_SameStationKeepsCatchableRule ==
    (Compared /\ ~TransferElsewhere) =>
       /\ Result.o2x = Some(0)
       /\ Result.kind = "compared" =>
             Result.express_depart_min >= Result.local_minutes[1] + TRANSFER_BUFFER_MIN
       /\ CatchableMinutes = {} =>
             (Result.kind = "no_catch" /\ Result.recommendation = "local")

(***************************************************************************)
(* Several express candidates (checked under SpecCompare)                  *)
(***************************************************************************)
\* static time transfer -> destination on the line of the express chosen
ChosenLineTime ==
    get_travel_time_on_line(adjacency, Val(Args.transfer).id, Val(Args.to).id,
                            Result.express_line)

\* C21: with several express candidates the static time added to the
\* transfer total is the transfer -> destination time of the line of the
\* express arrival chosen, and an arrival is chosen only if its own line has
\* a path from the transfer station to the destination.
C21_TransferTotalUsesChosenLine ==
    (Compared /\ Result.kind = "compared") =>
       /\ ChosenLineTime # None
       /\ Result.transfer_total = Result.express_depart_min + Val(ChosenLineTime)

(***************************************************************************)
(* Properties of the connection plan (checked under SpecPlan)              *)
(***************************************************************************)
Planned(kind) == IsCall("get_transfer_timing") /\ Result.kind = kind

\* travel times of the legs after the first
LaterLegs == SubSeq(SegmentTimes(Result.route.segments), 2, Len(Result.route.segments))

\* C22: the legs of the planned route are processed in order: the arrival
\* chosen at a later leg's boarding station is the earliest one with
\* minutes_until >= projected arrival there + buffer, the projected arrival
\* being the previous leg's chosen departure plus its travel time; and the
\* total to the destination accounts for every leg, routes of three or more
\* segments included.
C22_EveryLegIsTimedInOrder ==
    Planned("timed") =>
       LET earliest == Result.next_depart_min + Result.travel_to_xfer + TRANSFER_BUFFER_MIN
           catchable == {Result.relevant2[k] : k \in {i \in 1..Len(Result.relevant2) :
                                                        Result.relevant2[i] >= earliest}}
       IN /\ catchable # {}
          /\ Result.next_second = SetMin(catchable)
          /\ Result.total >= Result.next_second + SumSeq(LaterLegs)

\* the call found a route between two stations it resolved
RoutePlanned ==
    /\ IsCall("get_transfer_timing")
    /\ Args.from # None /\ Args.to # None
    /\ GraphFindRoute(adjacency, gtfs, Val(Args.from).id, Val(Args.to).id) # None

\* the result carries a total and says it is an estimate
EstimatedTotal ==
    /\ {"total", "estimated"} \subseteq DOMAIN Result
    /\ Result.estimated

\* C23: the connection plan yields a total whenever a route exists: a
\* single-segment route with no live departure at the origin gives the static
\* travel time alone, marked estimated; in a multi-segment route a leg with
\* no live data or no catchable arrival falls back to a default wait plus its
\* static travel time, marked estimated, and a first leg with no
\* same-direction arrival falls back to the unfiltered nearest arrivals.
C23_PlanAlwaysYieldsTotal ==
    RoutePlanned =>
       /\ "total" \in DOMAIN Result
       /\ Result.kind \notin {"direct", "timed"} => EstimatedTotal
       /\ (Len(Result.route.segments) = 1 /\ Result.kind # "direct")
             => Result.total = OrZero(Result.travel)

(***************************************************************************)
(* Properties of get_travel_time (checked under SpecLookup)                *)
(***************************************************************************)
\* the table with every stored id stripped of its suffix, entries that
\* fall together keeping the smaller value
StrippedTable(table) ==
    LET keyOf(k) == <<RStripNS(k[1]), RStripNS(k[2]), k[3]>>
        keys == {keyOf(k) : k \in DOMAIN table}
    IN [b \in keys |->
           SetMin({table[k] : k \in {x \in DOMAIN table : keyOf(x) = b}})]

\* the lookups per line that find something
PerLine(table, a, b) ==
    {get_travel_time(table, a, b, l) : l \in Lines} \ {None}

\* C24: get_travel_time is insensitive to direction suffixes, on either
\* query id and on the ids stored in the table, and its two modes agree:
\* without a line it returns the minimum over all lines of the lookup with
\* that line, None only when every such lookup is None.
C24_SuffixesAndModesAgree ==
    IsCall("get_travel_time") =>
       LET table == Val(gtfs)
           a == Args.from
           b == Args.to
       IN /\ \A x, y \in LookupIds :
                (RStripNS(x) = RStripNS(a) /\ RStripNS(y) = RStripNS(b))
                   => get_travel_time_optional(table, x, y, Args.route) = Result.seconds
          /\ get_travel_time_optional(StrippedTable(table), a, b, Args.route) = Result.seconds
          /\ Args.route = "" =>
                Result.seconds = (IF PerLine(table, a, b) = {} THEN None
                                  ELSE Some(SetMin({Val(s) : s \in PerLine(table, a, b)})))

(***************************************************************************)
(* Properties of start-up (checked under SpecStartup)                      *)
(***************************************************************************)
\* the constructor's parse_gtfs call returned False or raised
ParseDidNotSucceed == pc[Constructor].parse \in {"false", "raised"}

\* every edge has the default weight and a twin in the other direction
EdgesAreEstimates(adj) ==
    \A a \in DOMAIN adj : \A k \in 1..Len(adj[a]) :
        LET b == adj[a][k][1]
            line == adj[a][k][2]
        IN /\ adj[a][k][3] = AVG_TIME_BETWEEN_STOPS
           /\ adj[a][k][3] >= 0
           /\ b \in DOMAIN adj
           /\ \E j \in 1..Len(adj[b]) : adj[b][j] = <<a, line, AVG_TIME_BETWEEN_STOPS>>

\* a find_route or get_travel_time_on_line answer made of per-hop estimates
AnswersFromEstimates ==
    /\ IsCall("find_route") /\ Result.route # None
       => \A k \in 1..Len(Val(Result.route).segments) :
             LET seg == Val(Result.route).segments[k]
             IN seg.travel_time_minutes
                    = (Len(seg.stops) - 1) * AVG_TIME_BETWEEN_STOPS
    /\ IsCall("get_travel_time_on_line") /\ Result.minutes # None
       => /\ Val(Result.minutes) >= 0
          /\ Val(Result.minutes) % AVG_TIME_BETWEEN_STOPS = 0

\* C25: when the bundle is missing and cannot be downloaded, or its parsing
\* fails, the construction of SubwayGraph still completes: the graph has no
\* parser, every edge is bidirectional with the default weight of
\* 2 minutes, no weight is negative, and find_route and
\* get_travel_time_on_line answer from those estimates.
C25_StartupFallsBackToEstimates ==
    (Built /\ ParseDidNotSucceed)
    => /\ gtfs = None
       /\ DOMAIN adjacency = {e[1] : e \in Range(AllEdges)}
       /\ EdgesAreEstimates(adjacency)
       /\ AnswersFromEstimates

\* the download failed, the graph was built and a route of two segments
\* was found on it
C25_Witness ==
    /\ Built
    /\ pc[Constructor].parse = "false"
    /\ bundle = "absent"
    /\ IsCall("find_route")
    /\ Result.route # None
    /\ Len(Val(Result.route).segments) = 2

(***************************************************************************)
(* Properties of the parser singleton (checked under SpecSingleton)        *)
(***************************************************************************)
\* C26: with concurrent callers of get_gtfs_parser, no caller obtains a
\* parser whose parse has not completed successfully, and the shared
\* reference is either absent or an instance with a fully built table.
C26_OnlyBuiltParsersAreShared ==
    /\ \A t \in Callers : pc[t].got.kind = "parser" => pc[t].got.complete
    /\ singleton # None => parsers[Val(singleton)].parsed = "yes"

(***************************************************************************)
(* Route against search state (checked under SpecRoute)                    *)
(***************************************************************************)
\* C27: with default edge weights, the Route built for the popped
\* destination state has that state's accumulated cost as
\* total_time_minutes and its transfer counter as transfer_count.
C27_RouteAgreesWithSearch ==
    (IsCall("find_route") /\ gtfs = None /\ Result.route # None)
    => /\ Result.popped # None
       /\ Val(Result.route).total_time_minutes = Val(Result.popped).time
       /\ Val(Result.route).transfer_count = Val(Result.popped).transfers

(***************************************************************************)
(* Properties of racing refreshes (checked under SpecRace)                 *)
(***************************************************************************)
\* the cache entry of the endpoint is one complete pair
CompletePair(entry) ==
    /\ entry.data \in CachePayloads[RaceUrl]
    /\ entry.time \in 0..(MaxFetchSteps * FetchStep)

\* C28: when callers race to refresh one expired endpoint, none of them is
\* ever blocked by another, the cache holds one complete (fetch-time,
\* payload) pair, the stored fetch-time is not later than the moment the
\* payload was downloaded, and a stored pair is never replaced by a payload
\* downloaded earlier than the one it replaces.
C28_RacingRefreshKeepsNewest ==
    /\ \A t \in Callers : ENABLED FetchFeedStep(t)
    /\ cache[RaceUrl] # None
         => /\ CompletePair(Val(cache[RaceUrl]))
            /\ Val(cache[RaceUrl]).time <= Val(cache[RaceUrl]).downloaded
            /\ Val(cache[RaceUrl]).replaced <= Val(cache[RaceUrl]).downloaded

(***************************************************************************)
(* Properties of the bundle download (checked under SpecStartup)           *)
(***************************************************************************)
\* C29: whenever download_gtfs returns False no file is left at the bundle
\* path, so a parse_gtfs call that skips the download never has a truncated
\* archive before it.
C29_FailedDownloadLeavesNoFile ==
    \A t \in Callers :
        /\ pc[t].download = "false" => bundle = "absent"
        /\ (pc[t].at = "open" /\ pc[t].download = "") => bundle # "partial"

(***************************************************************************)
(* Graph against catalog (checked under SpecRoute)                         *)
(***************************************************************************)
\* lines of the edges leaving a station
EdgeLines(adj, id) == {adj[id][k][2] : k \in 1..Len(adj[id])}

\* C30: for every edge (a, b, line) of the graph, line is in the catalog's
\* line set of a and of b; the lines seeded at the origin by find_route are
\* exactly the lines of the edges leaving the origin; and a route never
\* boards a line at a station whose catalog entry lacks that line.
C30_GraphAndCatalogAgreeOnLines ==
    /\ \A a \in DOMAIN adjacency : \A k \in 1..Len(adjacency[a]) :
          /\ a \in StationIds
          /\ adjacency[a][k][2] \in Range(STATIONS[a].lines)
          /\ adjacency[a][k][1] \in StationIds
          /\ adjacency[a][k][2] \in Range(STATIONS[adjacency[a][k][1]].lines)
    /\ \A a \in DOMAIN adjacency :
          {e.line : e \in SeedQueue(a)} = EdgeLines(adjacency, a)
    /\ (IsCall("find_route") /\ Result.route # None)
       => \A k \in 1..Len(Val(Result.route).segments) :
             LET seg == Val(Result.route).segments[k]
             IN seg.line \in Range(STATIONS[seg.from_station].lines)

====
